---- MODULE Spec2Model ----
(***************************************************************************)
(* Model of the deterministic core of the parking-account recommender:     *)
(*   - the rule-based eligibility filter (tools/condition_matcher.py,      *)
(*     schemas/eligibility_filter_result.py);                              *)
(*   - the sequential agent pipeline (pipeline/pipeline.py, agents/*.py).  *)
(* Rates are percentages scaled to integers; only comparisons, max and     *)
(* sorting are applied to them, so the scale does not matter.              *)
(***************************************************************************)
EXTENDS Integers, Sequences, FiniteSets, TLC

VARIABLES
    products,     \* the catalog list handed to ConditionMatcherTool.run
    conditions,   \* the EligibilityConditions handed to run
    results,      \* results of the successive run() invocations, oldest first
    stages,       \* the locals of the last run(): the output of every stage
    pc,           \* where the caller's current call stands
    mode,         \* "pipeline": Pipeline.run; "direct": one agent's execute
    step,         \* index in the pipeline of the agent to invoke next
    flow,         \* the value handed to the next agent
    invocations,  \* execute() calls of the current call: agent and response
    tool_calls,   \* tool stages invoked during the current call, in order
    outcome,      \* what the current call gave back to the caller
    agent_ctx,    \* the QuestionAgentContext of every QuestionAgent instance
    instance,     \* the QuestionAgent instance the current call goes through
    ctx_writes,   \* per instance, the calls that have written its context
    runs,         \* calls started so far
    thread_ctx,   \* per thread, the values its context holds for the
                  \* ContextVars of one QuestionAgent shared by the threads
    thread_pc,    \* per thread, the statement of execute it is to run next
    thread_arg,   \* per thread, the argument of its execute call
    schedule,     \* the steps the threads have taken, in the order taken
    ui_pc,        \* where a call of UserInputTool.invoke stands
    ui_input,     \* the QuestionGeneratorResult handed to invoke
    ui_index,     \* the position in the question list of the question asked
    ui_responses, \* the list user_responses of invoke
    ui_reads,     \* the reads of the input channel made for this question
    channel,      \* the state of the input channel (standard input)
    ui_result     \* the UserInputResult invoke returned

filterVars == <<products, conditions, results, stages>>

pipeVars == <<pc, mode, step, flow, invocations, tool_calls, outcome,
              agent_ctx, instance, ctx_writes, runs>>

threadVars == <<thread_ctx, thread_pc, thread_arg, schedule>>

inputVars == <<ui_pc, ui_input, ui_index, ui_responses, ui_reads, channel,
               ui_result>>

vars == <<products, conditions, results, stages, pc, mode, step, flow,
          invocations, tool_calls, outcome, agent_ctx, instance, ctx_writes,
          runs, thread_ctx, thread_pc, thread_arg, schedule, ui_pc, ui_input,
          ui_index, ui_responses, ui_reads, channel, ui_result>>

-----------------------------------------------------------------------------
(* Bounds of the model *)

MaxCatalog == 32      \* largest catalog size explored
MaxRuns == 2          \* invocations of run() on the same inputs
PatternLen == 3       \* period of the product kinds in a generated catalog
MaxPipelineRuns == 3  \* successive calls through the same agent instances
MaxInstances == 2     \* QuestionAgent instances alive at the same time

(* Program constants *)

MIN_COUNT == 15       \* rebalancing floor
MAX_COUNT == 30       \* rebalancing ceiling

\* the reason string of condition_matcher.py line 160 ("minimum rate not met")
RATE_REASON == "min_rate_not_met"
\* the reason string of condition_matcher.py line 187 ("category or special
\* condition not satisfied")
MISMATCH_REASON == "category_or_special_mismatch"

-----------------------------------------------------------------------------
(* Python helpers *)

\* x in list
InList(x, list) == \E i \in 1..Len(list) : list[i] = x

\* dict.get(key, default)
DictGet(d, key, default) == IF key \in DOMAIN d THEN d[key] ELSE default

\* max(a, b)
Max(a, b) == IF a >= b THEN a ELSE b

\* {product.get("product_code") for product in list}
CodesOf(list) == {list[i].product_code : i \in 1..Len(list)}

\* list[:n]
Take(list, n) == SubSeq(list, 1, IF n < Len(list) THEN n ELSE Len(list))

\* place x in a list already sorted descending by prime_interest_rate, after
\* every element whose key is >= the key of x (keeps equal keys in input order)
RECURSIVE InsertDesc(_, _)
InsertDesc(x, sorted) ==
    IF sorted = <<>> THEN <<x>>
    ELSE IF Head(sorted).prime_interest_rate >= x.prime_interest_rate
         THEN <<Head(sorted)>> \o InsertDesc(x, Tail(sorted))
         ELSE <<x>> \o sorted

\* sorted(list, key=lambda x: x.get("prime_interest_rate", 0), reverse=True):
\* a new list, stable, descending
RECURSIVE SortedDescFrom(_, _, _)
SortedDescFrom(list, i, acc) ==
    IF i > Len(list) THEN acc
    ELSE SortedDescFrom(list, i + 1, InsertDesc(list[i], acc))

SortedByPrimeDesc(list) == SortedDescFrom(list, 1, <<>>)

-----------------------------------------------------------------------------
(* tools/condition_matcher.py *)

check_interest_rate(product, min_rate) ==
    Max(product.interest_rate, product.prime_interest_rate) >= min_rate

\* variant: keeps a product that has any one of the categories
apply_category_filters_any(list, categories) ==
    IF categories = <<>> THEN list
    ELSE SelectSeq(list, LAMBDA p :
             \E i \in 1..Len(categories) : InList(categories[i], p.categories))

RECURSIVE apply_category_filters(_, _)
apply_category_filters(list, categories) ==
    IF categories = <<>> THEN list
    ELSE apply_category_filters(
             SelectSeq(list, LAMBDA p : InList(Head(categories), p.categories)),
             Tail(categories))

RECURSIVE apply_special_condition_filters(_, _)
apply_special_condition_filters(list, special_conditions) ==
    IF special_conditions = <<>> THEN list
    ELSE apply_special_condition_filters(
             SelectSeq(list, LAMBDA p :
                 DictGet(p.special_conditions, Head(special_conditions), FALSE)),
             Tail(special_conditions))

\* variant: no cut to MAX_COUNT
apply_count_rebalancing_uncut(matched_products, all_products) ==
    IF matched_products = <<>> /\ all_products = <<>> THEN <<>>
    ELSE LET sorted_matched == SortedByPrimeDesc(matched_products)
         IN  IF Len(sorted_matched) < MIN_COUNT
             THEN LET needed_count == MIN_COUNT - Len(sorted_matched)
                      matched_codes == CodesOf(sorted_matched)
                      remaining_products ==
                          SelectSeq(all_products,
                                    LAMBDA p : p.product_code \notin matched_codes)
                      sorted_remaining == SortedByPrimeDesc(remaining_products)
                  IN  sorted_matched \o Take(sorted_remaining, needed_count)
             ELSE sorted_matched

\* variant: backfill with every remaining product, not only needed_count
apply_count_rebalancing_overfill(matched_products, all_products) ==
    IF matched_products = <<>> /\ all_products = <<>> THEN <<>>
    ELSE LET sorted_matched == SortedByPrimeDesc(matched_products)
         IN  IF Len(sorted_matched) < MIN_COUNT
             THEN LET matched_codes == CodesOf(sorted_matched)
                      remaining_products ==
                          SelectSeq(all_products,
                                    LAMBDA p : p.product_code \notin matched_codes)
                  IN  sorted_matched \o SortedByPrimeDesc(remaining_products)
             ELSE IF Len(sorted_matched) > MAX_COUNT
                  THEN Take(sorted_matched, MAX_COUNT)
                  ELSE sorted_matched

\* variant: backfill from the remaining products in catalog order
apply_count_rebalancing_unsorted_fill(matched_products, all_products) ==
    IF matched_products = <<>> /\ all_products = <<>> THEN <<>>
    ELSE LET sorted_matched == SortedByPrimeDesc(matched_products)
         IN  IF Len(sorted_matched) < MIN_COUNT
             THEN LET needed_count == MIN_COUNT - Len(sorted_matched)
                      matched_codes == CodesOf(sorted_matched)
                      remaining_products ==
                          SelectSeq(all_products,
                                    LAMBDA p : p.product_code \notin matched_codes)
                  IN  sorted_matched \o Take(remaining_products, needed_count)
             ELSE IF Len(sorted_matched) > MAX_COUNT
                  THEN Take(sorted_matched, MAX_COUNT)
                  ELSE sorted_matched

\* variant: the backfill is taken from the whole catalog, matched included
apply_count_rebalancing_refill(matched_products, all_products) ==
    IF matched_products = <<>> /\ all_products = <<>> THEN <<>>
    ELSE LET sorted_matched == SortedByPrimeDesc(matched_products)
         IN  IF Len(sorted_matched) < MIN_COUNT
             THEN LET needed_count == MIN_COUNT - Len(sorted_matched)
                      sorted_remaining == SortedByPrimeDesc(all_products)
                  IN  sorted_matched \o Take(sorted_remaining, needed_count)
             ELSE IF Len(sorted_matched) > MAX_COUNT
                  THEN Take(sorted_matched, MAX_COUNT)
                  ELSE sorted_matched

\* variant: 15 to 30 survivors are returned in the order they came in
apply_count_rebalancing_keep_order(matched_products, all_products) ==
    IF matched_products = <<>> /\ all_products = <<>> THEN <<>>
    ELSE LET sorted_matched == SortedByPrimeDesc(matched_products)
         IN  IF Len(sorted_matched) < MIN_COUNT
             THEN LET needed_count == MIN_COUNT - Len(sorted_matched)
                      matched_codes == CodesOf(sorted_matched)
                      remaining_products ==
                          SelectSeq(all_products,
                                    LAMBDA p : p.product_code \notin matched_codes)
                      sorted_remaining == SortedByPrimeDesc(remaining_products)
                  IN  sorted_matched \o Take(sorted_remaining, needed_count)
             ELSE IF Len(sorted_matched) > MAX_COUNT
                  THEN Take(sorted_matched, MAX_COUNT)
                  ELSE matched_products

\* variant: the cut to MAX_COUNT is made before the sort
apply_count_rebalancing_cut_first(matched_products, all_products) ==
    IF matched_products = <<>> /\ all_products = <<>> THEN <<>>
    ELSE LET sorted_matched == SortedByPrimeDesc(matched_products)
         IN  IF Len(sorted_matched) < MIN_COUNT
             THEN LET needed_count == MIN_COUNT - Len(sorted_matched)
                      matched_codes == CodesOf(sorted_matched)
                      remaining_products ==
                          SelectSeq(all_products,
                                    LAMBDA p : p.product_code \notin matched_codes)
                      sorted_remaining == SortedByPrimeDesc(remaining_products)
                  IN  sorted_matched \o Take(sorted_remaining, needed_count)
             ELSE IF Len(sorted_matched) > MAX_COUNT
                  THEN SortedByPrimeDesc(Take(matched_products, MAX_COUNT))
                  ELSE sorted_matched

\* variant: the backfill takes the end of the sorted remaining products
apply_count_rebalancing_fill_lowest(matched_products, all_products) ==
    IF matched_products = <<>> /\ all_products = <<>> THEN <<>>
    ELSE LET sorted_matched == SortedByPrimeDesc(matched_products)
         IN  IF Len(sorted_matched) < MIN_COUNT
             THEN LET needed_count == MIN_COUNT - Len(sorted_matched)
                      matched_codes == CodesOf(sorted_matched)
                      remaining_products ==
                          SelectSeq(all_products,
                                    LAMBDA p : p.product_code \notin matched_codes)
                      sorted_remaining == SortedByPrimeDesc(remaining_products)
                      first == Max(1, Len(sorted_remaining) - needed_count + 1)
                  IN  sorted_matched
                      \o SubSeq(sorted_remaining, first, Len(sorted_remaining))
             ELSE IF Len(sorted_matched) > MAX_COUNT
                  THEN Take(sorted_matched, MAX_COUNT)
                  ELSE sorted_matched

apply_count_rebalancing(matched_products, all_products) ==
    IF matched_products = <<>> /\ all_products = <<>> THEN <<>>
    ELSE LET sorted_matched == SortedByPrimeDesc(matched_products)
         IN  IF Len(sorted_matched) < MIN_COUNT
             THEN LET needed_count == MIN_COUNT - Len(sorted_matched)
                      matched_codes == CodesOf(sorted_matched)
                      remaining_products ==
                          SelectSeq(all_products,
                                    LAMBDA p : p.product_code \notin matched_codes)
                      sorted_remaining == SortedByPrimeDesc(remaining_products)
                  IN  sorted_matched \o Take(sorted_remaining, needed_count)
             ELSE IF Len(sorted_matched) > MAX_COUNT
                  THEN Take(sorted_matched, MAX_COUNT)
                  ELSE sorted_matched

\* stage 1 of run(): the products passing / failing the rate check
rate_matched(c, list) ==
    SelectSeq(list, LAMBDA p : check_interest_rate(p, c.min_interest_rate))

rate_excluded(c, list) ==
    SelectSeq(list, LAMBDA p : ~check_interest_rate(p, c.min_interest_rate))

\* stage 2 of run()
category_matched(c, list) ==
    IF c.categories # <<>>
    THEN apply_category_filters(rate_matched(c, list), c.categories)
    ELSE rate_matched(c, list)

\* stage 3 of run()
special_matched(c, list) ==
    IF c.special_conditions # <<>>
    THEN apply_special_condition_filters(category_matched(c, list),
                                         c.special_conditions)
    ELSE category_matched(c, list)

\* variant: the fraction, not the percentage
match_rate_of_fraction(matched_len, total) ==
    IF total > 0 THEN [num |-> matched_len, den |-> total]
                 ELSE [num |-> 0, den |-> 1]

\* match rate as the exact fraction num/den (percent)
match_rate_of(matched_len, total) ==
    IF total > 0 THEN [num |-> matched_len * 100, den |-> total]
                 ELSE [num |-> 0, den |-> 1]

\* schemas/eligibility_filter_result.py
create_result(matched, excluded, exclusion_reasons, c) ==
    LET total == Len(matched) + Len(excluded)
    IN  [matched_products  |-> matched,
         excluded_products |-> excluded,
         total_analyzed    |-> total,
         match_count       |-> Len(matched),
         match_rate        |-> match_rate_of(Len(matched), total),
         exclusion_reasons |-> exclusion_reasons,
         filter_conditions |-> [min_interest_rate  |-> c.min_interest_rate,
                                categories         |-> c.categories,
                                special_conditions |-> c.special_conditions]]

\* variant: the second pass does not look at the reasons already assigned
run_overwrite_reasons(c, list) ==
    LET excluded1 == rate_excluded(c, list)
        reasons1 == CodesOf(excluded1)
        matched == apply_count_rebalancing(special_matched(c, list), list)
        matched_codes == CodesOf(matched)
        excluded2 == SelectSeq(list, LAMBDA p :
                         p.product_code \notin matched_codes)
        exclusion_reasons ==
            [code \in reasons1 \cup CodesOf(excluded2) |->
                IF code \in CodesOf(excluded2) THEN MISMATCH_REASON
                                               ELSE RATE_REASON]
    IN  create_result(matched, excluded1 \o excluded2, exclusion_reasons, c)

\* ConditionMatcherTool.run
run(c, list) ==
    LET excluded1 == rate_excluded(c, list)
        reasons1 == CodesOf(excluded1)
        matched == apply_count_rebalancing(special_matched(c, list), list)
        matched_codes == CodesOf(matched)
        excluded2 == SelectSeq(list, LAMBDA p :
                         /\ p.product_code \notin matched_codes
                         /\ p.product_code \notin reasons1)
        exclusion_reasons ==
            [code \in reasons1 \cup CodesOf(excluded2) |->
                IF code \in reasons1 THEN RATE_REASON ELSE MISMATCH_REASON]
    IN  create_result(matched, excluded1 \o excluded2, exclusion_reasons, c)

\* variant: the catalog is sorted in place (list.sort) instead of copied
run_effect_sort_in_place(c, list) ==
    [result |-> run(c, list), products |-> SortedByPrimeDesc(list)]

\* what run() leaves in its arguments and returns: every stage builds new
\* lists (list comprehensions, sorted(), slices), so the caller's list is
\* exactly as it was
run_effect(c, list) ==
    [result |-> run(c, list), products |-> list]

-----------------------------------------------------------------------------
(* Inputs *)

\* the kinds of product a generated catalog is made of
ProductKinds ==
    << \* has every tag; base rate above promotional rate
       [interest_rate |-> 3, prime_interest_rate |-> 2,
        categories |-> <<"online", "anyone">>,
        special_conditions |-> [bank_app |-> TRUE, first_banking |-> TRUE]],
       \* lowest rates; bank_app present but false
       [interest_rate |-> 0, prime_interest_rate |-> 1,
        categories |-> <<"anyone", "online">>,
        special_conditions |-> [bank_app |-> FALSE, first_banking |-> TRUE]],
       \* lacks exactly the category "anyone"; highest promotional rate
       [interest_rate |-> 2, prime_interest_rate |-> 5,
        categories |-> <<"online">>,
        special_conditions |-> [bank_app |-> TRUE, first_banking |-> FALSE]],
       \* lacks exactly the special condition bank_app (key absent)
       [interest_rate |-> 2, prime_interest_rate |-> 3,
        categories |-> <<"online", "anyone">>,
        special_conditions |-> [first_banking |-> TRUE]] >>

Patterns == [1..PatternLen -> 1..Len(ProductKinds)]

\* a catalog of n products with unique codes 1..n, kinds repeating with pat
MakeCatalog(pat, n) ==
    [i \in 1..n |->
        LET k == ProductKinds[pat[((i - 1) % PatternLen) + 1]]
        IN  [product_code        |-> i,
             interest_rate       |-> k.interest_rate,
             prime_interest_rate |-> k.prime_interest_rate,
             categories          |-> k.categories,
             special_conditions  |-> k.special_conditions]]

Catalogs == {MakeCatalog(pat, n) : pat \in Patterns, n \in 0..MaxCatalog}

ConditionSet ==
    {[min_interest_rate |-> r, categories |-> cs, special_conditions |-> ss] :
        r \in {1, 3, 4},
        cs \in {<<>>, <<"online", "anyone">>},
        ss \in {<<>>, <<"bank_app">>}}

NoStages == [rate |-> <<>>, category |-> <<>>, special |-> <<>>, rebalanced |-> <<>>]

-----------------------------------------------------------------------------
(* Values shared by the agents *)

\* None where an object is optional
None == [py_none |-> TRUE]

\* None where a string is optional.  Strings that are built or searched are
\* sequences of tokens: f"prefix: {str(e)}" is concatenation
NoneStr == <<"None">>

\* the outcome of a call that may raise: a value, or the exception's message
Ok(value) == [ok |-> TRUE, value |-> value]

Raise(msg) == [ok |-> FALSE, msg |-> msg]

\* one tool stage or collaborator invoked by an agent: its name, the message
\* of the exception its collaborator raised (NoneStr when none did) and what
\* it returned
ToolCall(tool, fault, result) == [tool |-> tool, fault |-> fault, result |-> result]

\* m occurs in s
Contains(s, m) ==
    \E i \in 0..(Len(s) - Len(m)) : SubSeq(s, i + 1, i + Len(m)) = m

\* schemas/agent_responses.py: SimpleProduct, built from a catalog document
SimpleProduct(p) == [product_code |-> p.product_code]

SimpleProducts(list) == [i \in 1..Len(list) |-> SimpleProduct(list[i])]

EmptyFilterSummary ==
    [total_analyzed |-> 0, match_count |-> 0, excluded_count |-> 0,
     match_rate |-> [num |-> 0, den |-> 1]]

\* EligibilitySuccessResponse(**kwargs): result_products, filter_summary and
\* user_conditions have no default; a missing one is a ValidationError and an
\* unknown keyword is ignored
EligibilitySuccessResponse(kwargs) ==
    IF {"result_products", "filter_summary", "user_conditions"}
           \subseteq DOMAIN kwargs
    THEN Ok([type            |-> "EligibilitySuccessResponse",
             result_products |-> kwargs.result_products,
             filter_summary  |-> kwargs.filter_summary,
             user_conditions |-> kwargs.user_conditions,
             processing_step |-> "eligibility_completed",
             next_agent      |-> <<"FilterQuestionAgent">>,
             success         |-> TRUE,
             error           |-> NoneStr])
    ELSE Raise(<<"ValidationError: field required">>)

EligibilityErrorResponse(error) ==
    [type            |-> "EligibilityErrorResponse",
     result_products |-> <<>>,
     filter_summary  |-> EmptyFilterSummary,
     user_conditions |-> None,
     processing_step |-> "eligibility_failed",
     next_agent      |-> NoneStr,
     success         |-> FALSE,
     error           |-> error]

QuestionSuccessResponse(eligible_products, user_responses, response_summary, user_conditions) ==
    [type              |-> "QuestionSuccessResponse",
     eligible_products |-> eligible_products,
     user_responses    |-> user_responses,
     response_summary  |-> response_summary,
     user_conditions   |-> user_conditions,
     processing_step   |-> "question_filter_completed",
     next_agent        |-> <<"StrategyAgent">>,
     success           |-> TRUE,
     error             |-> NoneStr]

QuestionErrorResponse(error) ==
    [type              |-> "QuestionErrorResponse",
     eligible_products |-> <<>>,
     user_responses    |-> <<>>,
     response_summary  |-> <<>>,
     user_conditions   |-> None,
     processing_step   |-> "question_failed",
     next_agent        |-> NoneStr,
     success           |-> FALSE,
     error             |-> error]

StrategySuccessResponse(scenarios, user_conditions, user_responses, response_summary, interest_calculations) ==
    [type                  |-> "StrategySuccessResponse",
     scenarios             |-> scenarios,
     user_conditions       |-> user_conditions,
     user_responses        |-> user_responses,
     response_summary      |-> response_summary,
     interest_calculations |-> interest_calculations,
     processing_step       |-> "strategy_completed",
     next_agent            |-> <<"ComparatorAgent">>,
     success               |-> TRUE,
     error                 |-> NoneStr]

\* variant: next_agent has the default of the success class
StrategyErrorResponse_next_agent_default(error) ==
    [type                  |-> "StrategyErrorResponse",
     scenarios             |-> <<>>,
     user_conditions       |-> None,
     user_responses        |-> <<>>,
     response_summary      |-> <<>>,
     interest_calculations |-> <<>>,
     processing_step       |-> "strategy_failed",
     next_agent            |-> <<"ComparatorAgent">>,
     success               |-> FALSE,
     error                 |-> error]

StrategyErrorResponse(error) ==
    [type                  |-> "StrategyErrorResponse",
     scenarios             |-> <<>>,
     user_conditions       |-> None,
     user_responses        |-> <<>>,
     response_summary      |-> <<>>,
     interest_calculations |-> <<>>,
     processing_step       |-> "strategy_failed",
     next_agent            |-> NoneStr,
     success               |-> FALSE,
     error                 |-> error]

-----------------------------------------------------------------------------
(* agents/eligibility_agent.py *)

EligibilityAgent_format_success_response(filter_result, c) ==
    EligibilitySuccessResponse(
        [eligible_products |-> filter_result.matched_products,
         filter_summary    |->
             [total_analyzed |-> filter_result.total_analyzed,
              match_count    |-> filter_result.match_count,
              excluded_count |-> Len(filter_result.excluded_products),
              match_rate     |-> filter_result.match_rate],
         user_conditions   |-> c])

\* variant: the except clause answers with a fixed message
EligibilityAgent_execute_fixed_message(input_data, fetch) ==
    LET c == DictGet(input_data, "conditions", None)
    IN  IF c = None
        THEN [response |-> EligibilityErrorResponse(<<"no condition data given">>),
              tools    |-> <<>>]
        ELSE IF ~fetch.ok
        THEN [response |-> EligibilityErrorResponse(<<"internal error">>),
              tools    |-> <<ToolCall("get_all_documents", fetch.msg,
                                      [documents |-> <<>>])>>]
        ELSE IF fetch.value = <<>>
        THEN [response |-> EligibilityErrorResponse(<<"no product data to analyse">>),
              tools    |-> <<ToolCall("get_all_documents", NoneStr,
                                      [documents |-> <<>>])>>]
        ELSE LET filter_result == run(c, fetch.value)
                 made == EligibilityAgent_format_success_response(filter_result, c)
             IN  [response |-> IF made.ok THEN made.value
                               ELSE EligibilityErrorResponse(<<"internal error">>),
                  tools    |-> <<ToolCall("get_all_documents", NoneStr,
                                          [documents |-> fetch.value]),
                                 ToolCall("condition_matcher", NoneStr,
                                          filter_result)>>]

\* EligibilityAgent.execute; fetch is what get_all_documents gives on this
\* call: Ok(catalog) or Raise(message).  Gives the response and the tools
\* invoked
EligibilityAgent_execute(input_data, fetch) ==
    LET c == DictGet(input_data, "conditions", None)
    IN  IF c = None
        THEN [response |-> EligibilityErrorResponse(<<"no condition data given">>),
              tools    |-> <<>>]
        ELSE IF ~fetch.ok
        THEN [response |-> EligibilityErrorResponse(fetch.msg),
              tools    |-> <<ToolCall("get_all_documents", fetch.msg,
                                      [documents |-> <<>>])>>]
        ELSE IF fetch.value = <<>>
        THEN [response |-> EligibilityErrorResponse(<<"no product data to analyse">>),
              tools    |-> <<ToolCall("get_all_documents", NoneStr,
                                      [documents |-> <<>>])>>]
        ELSE LET filter_result == run(c, fetch.value)
                 made == EligibilityAgent_format_success_response(filter_result, c)
             IN  [response |-> IF made.ok THEN made.value
                               ELSE EligibilityErrorResponse(made.msg),
                  tools    |-> <<ToolCall("get_all_documents", NoneStr,
                                          [documents |-> fetch.value]),
                                 ToolCall("condition_matcher", NoneStr,
                                          filter_result)>>]

-----------------------------------------------------------------------------
(* context/question_agent_context.py *)

\* a QuestionAgentContext whose variables hold their defaults
NewContext ==
    [eligible_products |-> <<>>, user_conditions |-> None, session_id |-> ""]

\* the QuestionAgent instances: 1 is the one Pipeline.__init__ creates, the
\* others are created by a caller; each __init__ creates its own context
Instances == 1..MaxInstances

set_eligible_products(ctx, list) == [ctx EXCEPT !.eligible_products = list]

set_user_conditions(ctx, c) == [ctx EXCEPT !.user_conditions = c]

set_session_id(ctx, session_id) == [ctx EXCEPT !.session_id = session_id]

get_eligible_products(ctx) == ctx.eligible_products

get_user_conditions(ctx) == ctx.user_conditions

get_session_id(ctx) == ctx.session_id

\* variant: the context variables belong to the class, one set for every
\* instance
contexts_after_execute_shared(contexts, inst, ctx) ==
    [i \in DOMAIN contexts |-> ctx]

\* the contexts of all instances once the instance inst has run execute on
\* its own: __init__ gives every instance its own three ContextVar objects
contexts_after_execute(contexts, inst, ctx) ==
    [contexts EXCEPT ![inst] = ctx]

\* variant: the session id is left as it is
clear_context_keep_session(ctx) ==
    [ctx EXCEPT !.eligible_products = <<>>, !.user_conditions = None]

\* QuestionAgentContext.clear_context
clear_context(ctx) ==
    [ctx EXCEPT !.eligible_products = <<>>,
                !.user_conditions = None,
                !.session_id = ""]

\* the threads that call into one QuestionAgent at the same time
Threads == {"thread_1", "thread_2"}

\* variant: the value is an attribute of the object, one for every thread
ContextVar_set_shared(values, thread, ctx) == [t \in DOMAIN values |-> ctx]

\* ContextVar.set called in a thread: the value is bound in the context of
\* the calling thread, and ContextVar.get in a thread gives the value bound
\* in that thread's context or the default.  values[t] is what the three
\* ContextVars of the QuestionAgentContext give in thread t
ContextVar_set(values, thread, ctx) == [values EXCEPT ![thread] = ctx]

\* no thread has called into the agent
ThreadsIdle ==
    /\ thread_ctx = [t \in Threads |-> NewContext]
    /\ thread_pc = [t \in Threads |-> "idle"]
    /\ thread_arg = [t \in Threads |-> None]
    /\ schedule = <<>>

\* UserInputTool.invoke has not been called on its own; the input channel is
\* open
InputIdle ==
    /\ ui_pc = "idle"
    /\ ui_input = None
    /\ ui_index = 0
    /\ ui_responses = <<>>
    /\ ui_reads = 0
    /\ channel = "open"
    /\ ui_result = None

-----------------------------------------------------------------------------
(* The messages of the exceptions the collaborators raise *)

\* the document store, queried by ConditionExtractorTool
ExtractFault == <<"chunk query failed">>

\* the LLM chain of PatternAnalyzerTool
PatternFault == <<"pattern LLM call failed">>

\* the retrieval or the LLM chain of QuestionGeneratorTool
GenerateFault == <<"question LLM call failed">>

\* the input channel of UserInputTool, for one question
InputFault == <<"input channel failed">>

\* the document store, queried by InterestCalculatorTool.extract_product_details
DetailFault == <<"product detail query failed">>

\* the LLM chain of StrategyScenarioTool.generate_scenarios_with_llm
ScenarioFault == <<"scenario LLM call failed">>

-----------------------------------------------------------------------------
(* The tool stages of QuestionAgent.  Each *_invoke takes the stage input and
   what the stage's collaborator does on this call. *)

\* tools/condition_extractor.py; extract: "chunks", "no_chunks" (the query
\* matches nothing) or "raise" (the document store fails)
condition_extractor_invoke(eligibility_response, extract) ==
    LET failed == [products |-> <<>>, total_products |-> 0,
                   total_chunks |-> 0, success |-> FALSE]
    IN  IF ~eligibility_response.success
           \/ eligibility_response.result_products = <<>>
        THEN failed
        ELSE IF extract = "raise" THEN failed
        ELSE IF extract = "no_chunks"
        THEN [products |-> <<>>, total_products |-> 0,
              total_chunks |-> 0, success |-> TRUE]
        ELSE [products       |-> eligibility_response.result_products,
              total_products |-> Len(eligibility_response.result_products),
              total_chunks   |-> Len(eligibility_response.result_products),
              success        |-> TRUE]

\* PatternAnalyzerTool._validate_input
PatternAnalyzerTool_validate_input(extracted_conditions) ==
    /\ extracted_conditions.success
    /\ extracted_conditions.products # <<>>

\* tools/pattern_analyzer.py; pattern: "ok", "no_queries" (the model returns
\* no RAG query: defaults are filled in) or "raise" (LLM call or parse fails)
pattern_analyzer_invoke(extracted_conditions, pattern) ==
    IF ~PatternAnalyzerTool_validate_input(extracted_conditions)
    THEN [analysis_patterns |-> <<>>, rag_queries |-> <<>>,
          total_patterns |-> 0, analysis_success |-> FALSE]
    ELSE IF pattern = "raise"
    THEN [analysis_patterns |-> <<>>,
          rag_queries |-> <<"general preferential", "general rate">>,
          total_patterns |-> 0, analysis_success |-> FALSE]
    ELSE [analysis_patterns |-> <<"pattern">>,
          rag_queries |-> IF pattern = "no_queries"
                          THEN <<"default query 1", "default query 2">>
                          ELSE <<"query">>,
          total_patterns |-> 1, analysis_success |-> TRUE]

\* a generated question
UserQuestion(i) ==
    [id |-> i, category |-> "online", question |-> <<"question", i>>,
     impact |-> "impact"]

\* variant: only the RAG queries of the input are looked at
QuestionGeneratorTool_validate_input_queries_only(pattern_analyzer_result) ==
    pattern_analyzer_result.rag_queries # <<>>

\* QuestionGeneratorTool._validate_input
QuestionGeneratorTool_validate_input(pattern_analyzer_result) ==
    /\ pattern_analyzer_result.analysis_success
    /\ pattern_analyzer_result.rag_queries # <<>>

\* tools/question_generator.py; generate: the number of questions the model
\* returns, or -1 when the LLM call or the parse raises
question_generator_invoke(input_data, generate) ==
    LET failed == [questions |-> <<>>, total_questions |-> 0,
                   generation_success |-> FALSE]
    IN  IF ~QuestionGeneratorTool_validate_input(input_data)
        THEN failed
        ELSE IF generate < 0 THEN failed
        ELSE [questions |-> [i \in 1..generate |-> UserQuestion(i)],
              total_questions |-> generate,
              generation_success |-> TRUE]

\* tools/user_input.py, _create_response_summary(self, responses): a module
\* level function of two positional parameters, given the arguments argv
create_response_summary(argv) ==
    IF Len(argv) = 2
    THEN Ok([q \in {argv[2][i].question : i \in 1..Len(argv[2])} |->
                LET last == CHOOSE i \in 1..Len(argv[2]) :
                                /\ argv[2][i].question = q
                                /\ \A j \in (i + 1)..Len(argv[2]) :
                                       argv[2][j].question # q
                IN  argv[2][last].response_value])
    ELSE Raise(<<"TypeError: missing 1 required positional argument">>)

\* UserInputTool._create_user_response
create_user_response(question, raw_response, response_value) ==
    [id |-> question.id, category |-> question.category,
     question |-> question.question, impact |-> question.impact,
     response_value |-> response_value, raw_response |-> raw_response]

\* the responses collected by the loop of UserInputTool.invoke; answers[i] is
\* what the input step of question i does: "y", "n", "interrupted"
\* (KeyboardInterrupt, answered as False) or "fail" (the step raises and the
\* question is skipped)
RECURSIVE collect_responses(_, _, _)
collect_responses(questions, answers, i) ==
    IF i > Len(questions) THEN <<>>
    ELSE IF answers[i] = "fail"
         THEN collect_responses(questions, answers, i + 1)
         ELSE <<create_user_response(questions[i], answers[i], answers[i] = "y")>>
              \o collect_responses(questions, answers, i + 1)

\* UserInputTool._validate_input
UserInputTool_validate_input(question_generator_result) ==
    /\ question_generator_result.generation_success
    /\ question_generator_result.questions # <<>>
    /\ Len(question_generator_result.questions) # 0

\* UserInputTool.invoke
user_input_invoke(input_data, answers) ==
    IF ~UserInputTool_validate_input(input_data)
    THEN [user_responses |-> <<>>, response_summary |-> <<>>,
          total_questions |-> 0, answered_questions |-> 0,
          collection_success |-> FALSE]
    ELSE LET user_responses == collect_responses(input_data.questions, answers, 1)
             summary == create_response_summary(<<user_responses>>)
         IN  IF summary.ok
             THEN [user_responses     |-> user_responses,
                   response_summary   |-> summary.value,
                   total_questions    |-> input_data.total_questions,
                   answered_questions |-> Len(user_responses),
                   collection_success |-> Len(user_responses) > 0]
             ELSE [user_responses     |-> user_responses,
                   response_summary   |-> <<>>,
                   total_questions    |-> input_data.total_questions,
                   answered_questions |-> Len(user_responses),
                   collection_success |-> FALSE]

\* ResponseFormatterTool._validate_input
ResponseFormatterTool_validate_input(input_data) ==
    /\ input_data.collection_success
    /\ input_data.user_responses # <<>>
    /\ input_data.answered_questions # 0

\* tools/response_formatter.py
response_formatter_invoke(input_data, ctx) ==
    IF ~ResponseFormatterTool_validate_input(input_data)
    THEN QuestionErrorResponse(<<"user input validation failed">>)
    ELSE IF get_eligible_products(ctx) = <<>>
    THEN QuestionErrorResponse(<<"no eligible products in context">>)
    ELSE IF get_user_conditions(ctx) = None
    THEN QuestionErrorResponse(<<"no user conditions in context">>)
    ELSE QuestionSuccessResponse(get_eligible_products(ctx),
                                 input_data.user_responses,
                                 input_data.response_summary,
                                 get_user_conditions(ctx))

-----------------------------------------------------------------------------
(* agents/question_agent.py *)

\* QuestionAgent._build_runnable_chain
QuestionChain ==
    <<"condition_extractor", "pattern_analyzer", "question_generator",
      "user_input", "response_formatter">>

\* the exception each stage of the chain catches from its collaborator
\* during a run with behaviour b: a stage calls its collaborator only when
\* its own input validation passes
QuestionChain_faults(eligibility_response, b) ==
    LET extracted == condition_extractor_invoke(eligibility_response, b.extract)
        analysed == pattern_analyzer_invoke(extracted, b.pattern)
        generated == question_generator_invoke(analysed, b.generate)
    IN  << IF b.extract = "raise" THEN ExtractFault ELSE NoneStr,
           IF /\ PatternAnalyzerTool_validate_input(extracted)
              /\ b.pattern = "raise"
           THEN PatternFault ELSE NoneStr,
           IF /\ QuestionGeneratorTool_validate_input(analysed)
              /\ b.generate < 0
           THEN GenerateFault ELSE NoneStr,
           IF /\ UserInputTool_validate_input(generated)
              /\ \E i \in 1..Len(generated.questions) : b.answers[i] = "fail"
           THEN InputFault ELSE NoneStr,
           NoneStr >>

QuestionAgent_format_error_response(msg) ==
    QuestionErrorResponse(<<"QuestionAgent RunnableSequence error:">> \o msg)

\* variant: no input validation
QuestionAgent_validate_absent(eligibility_response) == Ok(TRUE)

\* variant: only the success flag of the input is looked at
QuestionAgent_validate_flag_only(eligibility_response) ==
    IF ~eligibility_response.success
    THEN Raise(<<"EligibilityAgent is in a failed state">>)
    ELSE Ok(TRUE)

\* the ValueError the input validation of execute raises, or Ok
QuestionAgent_validate(eligibility_response) ==
    IF ~eligibility_response.success
    THEN Raise(<<"EligibilityAgent is in a failed state">>)
    ELSE IF eligibility_response.result_products = <<>>
    THEN Raise(<<"no filtered products">>)
    ELSE Ok(TRUE)

\* QuestionAgent.execute on the agent's context ctx; b is what the
\* collaborators do during this call.  Gives the response, the context the
\* call leaves behind and the tool stages it invoked
QuestionAgent_execute(eligibility_response, b, ctx, session_id) ==
    LET valid == QuestionAgent_validate(eligibility_response)
    IN  IF ~valid.ok
        THEN [response |-> QuestionAgent_format_error_response(valid.msg),
              ctx      |-> ctx,
              tools    |-> <<>>]
        ELSE LET ctx1 == set_session_id(
                             set_user_conditions(
                                 set_eligible_products(
                                     ctx, eligibility_response.result_products),
                                 eligibility_response.user_conditions),
                             session_id)
                 extracted == condition_extractor_invoke(eligibility_response,
                                                         b.extract)
                 analysed == pattern_analyzer_invoke(extracted, b.pattern)
                 generated == question_generator_invoke(analysed, b.generate)
                 collected == user_input_invoke(generated, b.answers)
                 response == response_formatter_invoke(collected, ctx1)
                 returned == <<extracted, analysed, generated, collected,
                               response>>
                 faults == QuestionChain_faults(eligibility_response, b)
             IN  [response |-> response,
                  ctx      |-> ctx1,
                  tools    |-> [i \in 1..Len(QuestionChain) |->
                                   ToolCall(QuestionChain[i], faults[i],
                                            returned[i])]]

-----------------------------------------------------------------------------
(* The tool stages of StrategyAgent *)

DefaultConditions ==
    [min_interest_rate |-> 0, categories |-> <<>>, special_conditions |-> <<>>]

\* tools/interest_calculator.py; calc: the number of products the LLM
\* returns a calculation for (0: none, or the call failed), or -1 when the
\* product details cannot be read
interest_calculator_invoke(input_data, calc) ==
    LET failed(msg) == [calculations |-> <<>>, user_responses |-> <<>>,
                        total_products_calculated |-> 0,
                        user_conditions |-> DefaultConditions,
                        success |-> FALSE, error |-> msg]
    IN  IF \/ ~input_data.success
           \/ input_data.eligible_products = <<>>
           \/ input_data.user_conditions = None
           \/ input_data.user_responses = <<>>
        THEN failed(<<"input validation failed">>)
        ELSE IF calc < 0 THEN failed(<<"no product details">>)
        ELSE IF calc = 0 THEN failed(<<"interest calculation failed">>)
        ELSE [calculations |-> [i \in 1..calc |-> [product_code |-> i]],
              user_responses |-> input_data.user_responses,
              total_products_calculated |-> calc,
              user_conditions |-> input_data.user_conditions,
              success |-> TRUE, error |-> NoneStr]

\* tools/strategy_scenario.py; count: the number of scenarios the LLM
\* returns (0 also when the call or the parse raises)
strategy_scenario_invoke(input_data, count) ==
    LET failed(msg) == [scenarios |-> <<>>,
                        user_conditions |-> DefaultConditions,
                        user_responses |-> <<>>,
                        interest_calculations |-> <<>>,
                        generation_success |-> FALSE, error |-> msg]
    IN  IF \/ ~input_data.success
           \/ input_data.calculations = <<>>
           \/ input_data.user_conditions = None
        THEN failed(<<"input validation failed">>)
        ELSE IF count = 0 THEN failed(<<"scenario generation failed">>)
        ELSE [scenarios |-> [i \in 1..count |-> [scenario_type |-> i]],
              user_conditions |-> input_data.user_conditions,
              user_responses |-> input_data.user_responses,
              interest_calculations |-> input_data.calculations,
              generation_success |-> TRUE, error |-> NoneStr]

-----------------------------------------------------------------------------
(* agents/strategy_agent.py *)

\* StrategyAgent._build_runnable_chain
StrategyChain == <<"interest_calculator", "strategy_scenario">>

\* StrategyAgent._format_success_response
StrategyAgent_format_success_response(scenario_result) ==
    StrategySuccessResponse(
        scenario_result.scenarios,
        scenario_result.user_conditions,
        scenario_result.user_responses,
        [id \in {scenario_result.user_responses[i].id :
                    i \in 1..Len(scenario_result.user_responses)} |->
            LET last == CHOOSE i \in 1..Len(scenario_result.user_responses) :
                   /\ scenario_result.user_responses[i].id = id
                   /\ \A j \in (i + 1)..Len(scenario_result.user_responses) :
                          scenario_result.user_responses[j].id # id
            IN  scenario_result.user_responses[last].response_value],
        scenario_result.interest_calculations)

StrategyAgent_format_error_response(msg) ==
    StrategyErrorResponse(<<"StrategyAgent RunnableSequence error:">> \o msg)

\* variant: the success flag of the input is not looked at
StrategyAgent_validate_no_flag(question_response) ==
    IF question_response.eligible_products = <<>>
    THEN Raise(<<"no eligible products">>)
    ELSE IF question_response.user_responses = <<>>
    THEN Raise(<<"no user responses">>)
    ELSE Ok(TRUE)

\* the ValueError the input validation of execute raises, or Ok
StrategyAgent_validate(question_response) ==
    IF ~question_response.success
    THEN Raise(<<"QuestionAgent is in a failed state">>)
    ELSE IF question_response.eligible_products = <<>>
    THEN Raise(<<"no eligible products">>)
    ELSE IF question_response.user_responses = <<>>
    THEN Raise(<<"no user responses">>)
    ELSE Ok(TRUE)

\* variant: any non-empty list of scenarios is accepted
StrategyAgent_check_result_nonempty(scenario_result) ==
    IF ~scenario_result.generation_success
    THEN Raise(<<"scenario generation failed:">> \o scenario_result.error)
    ELSE IF scenario_result.scenarios = <<>>
    THEN Raise(<<"scenario count error (3 needed)">>)
    ELSE Ok(TRUE)

\* the ValueError the check of the chain result raises, or Ok
StrategyAgent_check_result(scenario_result) ==
    IF ~scenario_result.generation_success
    THEN Raise(<<"scenario generation failed:">> \o scenario_result.error)
    ELSE IF scenario_result.scenarios = <<>>
            \/ Len(scenario_result.scenarios) # 3
    THEN Raise(<<"scenario count error (3 needed)">>)
    ELSE Ok(TRUE)

\* StrategyAgent.execute; b is what the collaborators do during this call.
\* Gives the response and the tool stages invoked
StrategyAgent_execute(question_response, b) ==
    LET valid == StrategyAgent_validate(question_response)
    IN  IF ~valid.ok
        THEN [response |-> StrategyAgent_format_error_response(valid.msg),
              tools    |-> <<>>]
        ELSE LET calculated == interest_calculator_invoke(question_response,
                                                          b.calc)
                 scenario_result == strategy_scenario_invoke(calculated,
                                                             b.count)
                 checked == StrategyAgent_check_result(scenario_result)
             IN  [response |->
                      IF checked.ok
                      THEN StrategyAgent_format_success_response(scenario_result)
                      ELSE StrategyAgent_format_error_response(checked.msg),
                  tools    |->
                      <<ToolCall("interest_calculator",
                                 IF /\ question_response.user_conditions # None
                                    /\ b.calc < 0
                                 THEN DetailFault ELSE NoneStr,
                                 calculated),
                        ToolCall("strategy_scenario",
                                 IF calculated.success /\ b.count = 0
                                 THEN ScenarioFault ELSE NoneStr,
                                 scenario_result)>>]

-----------------------------------------------------------------------------
(* pipeline/pipeline.py *)

Agents == <<"EligibilityAgent", "QuestionAgent", "StrategyAgent">>

\* variant: the QuestionAgent is a component twice
build_pipeline_question_twice ==
    <<"EligibilityAgent", "QuestionAgent", "QuestionAgent", "StrategyAgent">>

\* Pipeline.build_pipeline: the components of the RunnableSequence
build_pipeline == <<"EligibilityAgent", "QuestionAgent", "StrategyAgent">>

NoOutcome == [kind |-> "none", value |-> None]

Returned(value) == [kind |-> "returned", value |-> value]

\* the call ended with an exception reaching the caller
Raised(msg) == [kind |-> "raised", value |-> [exception |-> msg]]

\* variant: Pipeline.run without its except clause
Pipeline_except_absent(msg) == Raised(msg)

\* the except clause of Pipeline.run: a fault raised inside the try block
\* becomes a returned StrategyErrorResponse
Pipeline_except(msg) ==
    Returned(StrategyErrorResponse(<<"pipeline run failed:">> \o msg))

-----------------------------------------------------------------------------
(* Inputs of the pipeline and of the agents *)

MaxQuestions == 2     \* questions the generator may return
MaxCalculations == 2  \* products the interest calculation may cover
MaxScenarios == 4     \* scenarios the scenario LLM may return

PipeConditions ==
    {[min_interest_rate |-> 1, categories |-> <<>>,
      special_conditions |-> <<>>],
     [min_interest_rate |-> 3, categories |-> <<"online", "anyone">>,
      special_conditions |-> <<"bank_app">>]}

FirstPattern == [i \in 1..PatternLen |-> ((i - 1) % Len(ProductKinds)) + 1]

FetchOutcomes ==
    {Raise(<<"document store unreachable">>), Ok(<<>>),
     Ok(MakeCatalog(FirstPattern, 2))}

\* what the collaborators of the QuestionAgent chain do during one call; the
\* input channel is asked once per generated question
QuestionBehaviours ==
    UNION {[extract  : {"chunks", "no_chunks", "raise"},
            pattern  : {"ok", "no_queries", "raise"},
            generate : {g},
            answers  : [1..g -> {"y", "n", "interrupted", "fail"}]] :
               g \in -1..MaxQuestions}

StrategyBehaviours == [calc : -1..MaxCalculations, count : 0..MaxScenarios]

CraftedProducts == {<<>>, SimpleProducts(MakeCatalog(FirstPattern, 2))}

CraftedResponses == {<<>>, <<create_user_response(UserQuestion(1), "y", TRUE)>>}

\* what a caller may hand to EligibilityAgent.execute
EligibilityInputs ==
    {[conditions |-> c] : c \in PipeConditions \cup {None}}

\* what a caller may hand to QuestionAgent.execute
QuestionInputs ==
    {EligibilitySuccessResponse(
         [result_products |-> ps, filter_summary |-> EmptyFilterSummary,
          user_conditions |-> c]).value :
         ps \in CraftedProducts, c \in PipeConditions}
    \cup {EligibilityErrorResponse(<<"no product data to analyse">>)}

\* what a caller may hand to StrategyAgent.execute
StrategyInputs ==
    {QuestionSuccessResponse(ps, rs,
                             create_response_summary(<<None, rs>>).value, c) :
         ps \in CraftedProducts, rs \in CraftedResponses, c \in PipeConditions}
    \cup {QuestionErrorResponse(<<"user input validation failed">>)}

\* f"session_{int(start_time)}"; the clock is the number of calls started
SessionId(now) == "session_" \o ToString(now)

-----------------------------------------------------------------------------
(* The pipeline and the agents, driven by a caller *)

InitPipe ==
    /\ pc = "idle"
    /\ mode = "none"
    /\ step = 0
    /\ flow = None
    /\ invocations = <<>>
    /\ tool_calls = <<>>
    /\ outcome = NoOutcome
    /\ agent_ctx = [i \in Instances |-> NewContext]
    /\ instance = 1
    /\ ctx_writes = [i \in Instances |-> 0]
    /\ runs = 0
    /\ ThreadsIdle
    /\ InputIdle
    /\ products = <<>>
    /\ conditions = DefaultConditions
    /\ results = <<>>
    /\ stages = NoStages

\* a caller starts a new call once the previous one is over
Started ==
    /\ pc \in {"idle", "returned"}
    /\ runs < MaxPipelineRuns
    /\ runs' = runs + 1
    /\ invocations' = <<>>
    /\ tool_calls' = <<>>

\* Pipeline.run(conditions) up to pipeline.invoke; conditions without a
\* budget attribute ends the call in the except branch
PipelineRun ==
    \E c \in PipeConditions \cup {None} :
        /\ Started
        /\ mode' = "pipeline"
        /\ instance' = 1
        /\ flow' = [conditions |-> c]
        /\ IF c = None
           THEN /\ pc' = "returned"
                /\ step' = 0
                /\ outcome' = Pipeline_except(
                                  <<"AttributeError: no attribute budget">>)
           ELSE /\ pc' = "invoking"
                /\ step' = 1
                /\ outcome' = NoOutcome
        /\ UNCHANGED <<agent_ctx, ctx_writes, filterVars, threadVars, inputVars>>

\* a caller invokes one agent's runnable directly
CallAgent(index, input, inst) ==
    /\ Started
    /\ mode' = "direct"
    /\ instance' = inst
    /\ step' = index
    /\ flow' = input
    /\ pc' = "invoking"
    /\ outcome' = NoOutcome
    /\ UNCHANGED <<agent_ctx, ctx_writes, filterVars, threadVars, inputVars>>

CallEligibilityAgent == \E input \in EligibilityInputs : CallAgent(1, input, 1)

CallQuestionAgent ==
    \E input \in QuestionInputs : \E inst \in Instances : CallAgent(2, input, inst)

CallStrategyAgent == \E input \in StrategyInputs : CallAgent(3, input, 1)

\* the agent whose execute is invoked next
CurrentAgent == IF mode = "pipeline" THEN build_pipeline[step] ELSE Agents[step]

\* RunnableSequence.invoke hands the value an agent returned to the next
\* component, whatever the value is; after the last one it is the result
Deliver(agent, done) ==
    /\ invocations' = Append(invocations,
                             [agent |-> agent, response |-> done.response])
    /\ tool_calls' = tool_calls \o
                     [i \in 1..Len(done.tools) |->
                         [agent  |-> agent,
                          tool   |-> done.tools[i].tool,
                          fault  |-> done.tools[i].fault,
                          result |-> done.tools[i].result]]
    /\ flow' = done.response
    /\ IF mode = "pipeline"
       THEN IF step < Len(build_pipeline)
            THEN /\ pc' = "invoking"
                 /\ step' = step + 1
                 /\ UNCHANGED outcome
            ELSE /\ pc' = "finish"
                 /\ UNCHANGED <<step, outcome>>
       ELSE /\ pc' = "returned"
            /\ outcome' = Returned(done.response)
            /\ UNCHANGED step
    /\ UNCHANGED <<mode, instance, runs, filterVars, threadVars, inputVars>>

EligibilityExecute ==
    /\ pc = "invoking"
    /\ CurrentAgent = "EligibilityAgent"
    /\ \E fetch \in FetchOutcomes :
           Deliver("EligibilityAgent", EligibilityAgent_execute(flow, fetch))
    /\ UNCHANGED <<agent_ctx, ctx_writes>>

QuestionExecute ==
    /\ pc = "invoking"
    /\ CurrentAgent = "QuestionAgent"
    /\ \E b \in QuestionBehaviours :
           LET done == QuestionAgent_execute(flow, b, agent_ctx[instance],
                                             SessionId(runs))
           IN  /\ Deliver("QuestionAgent", done)
               /\ agent_ctx' = contexts_after_execute(agent_ctx, instance,
                                                      done.ctx)
               /\ ctx_writes' =
                      IF done.tools = <<>> THEN ctx_writes
                      ELSE [ctx_writes EXCEPT ![instance] = @ + 1]

StrategyExecute ==
    /\ pc = "invoking"
    /\ CurrentAgent = "StrategyAgent"
    /\ \E b \in StrategyBehaviours :
           Deliver("StrategyAgent", StrategyAgent_execute(flow, b))
    /\ UNCHANGED <<agent_ctx, ctx_writes>>

\* Pipeline.run after pipeline.invoke: the result is returned as it is
PipelineReturn ==
    /\ pc = "finish"
    /\ pc' = "returned"
    /\ outcome' = Returned(flow)
    /\ UNCHANGED <<mode, step, flow, invocations, tool_calls, agent_ctx,
                   instance, ctx_writes, runs, filterVars, threadVars, inputVars>>

NextPipe ==
    \/ PipelineRun
    \/ CallEligibilityAgent
    \/ CallQuestionAgent
    \/ CallStrategyAgent
    \/ EligibilityExecute
    \/ QuestionExecute
    \/ StrategyExecute
    \/ PipelineReturn

SpecPipe == InitPipe /\ [][NextPipe]_vars

-----------------------------------------------------------------------------
(* The filter engine invoked on its own *)

InitFilter ==
    /\ products \in Catalogs
    /\ conditions \in ConditionSet
    /\ results = <<>>
    /\ stages = NoStages
    /\ pc = "idle"
    /\ mode = "none"
    /\ step = 0
    /\ flow = None
    /\ invocations = <<>>
    /\ tool_calls = <<>>
    /\ outcome = NoOutcome
    /\ agent_ctx = [i \in Instances |-> NewContext]
    /\ instance = 1
    /\ ctx_writes = [i \in Instances |-> 0]
    /\ runs = 0
    /\ ThreadsIdle
    /\ InputIdle

\* one invocation of ConditionMatcherTool.run(conditions, products)
RunFilter ==
    /\ Len(results) < MaxRuns
    /\ LET eff == run_effect(conditions, products)
       IN  /\ results' = Append(results, eff.result)
           /\ products' = eff.products
           /\ stages' = [rate       |-> rate_matched(conditions, products),
                         category   |-> category_matched(conditions, products),
                         special    |-> special_matched(conditions, products),
                         rebalanced |-> eff.result.matched_products]
    /\ UNCHANGED <<conditions, pipeVars, threadVars, inputVars>>

NextFilter == RunFilter

SpecFilter == InitFilter /\ [][NextFilter]_vars

-----------------------------------------------------------------------------
(* One QuestionAgent called from two threads.  Each thread runs the
   statements of execute one at a time; a thread that is not inside execute
   may also call the methods of the agent's QuestionAgentContext itself. *)

MaxThreadSteps == 7   \* steps the threads take altogether
MaxThreadRuns == 2    \* execute calls the threads start altogether
MaxApiCalls == 2      \* direct calls of the context's methods altogether

\* tool_chain.invoke(eligibility_response) with the context values ctx of the
\* calling thread: the five stages in sequence, each given the result of the
\* one before
tool_chain_invoke(eligibility_response, b, ctx) ==
    response_formatter_invoke(
        user_input_invoke(
            question_generator_invoke(
                pattern_analyzer_invoke(
                    condition_extractor_invoke(eligibility_response, b.extract),
                    b.pattern),
                b.generate),
            b.answers),
        ctx)

ThreadInputs ==
    {EligibilitySuccessResponse(
         [result_products |-> SimpleProducts(MakeCatalog(FirstPattern, 1)),
          filter_summary  |-> EmptyFilterSummary,
          user_conditions |-> [min_interest_rate |-> 1, categories |-> <<>>,
                               special_conditions |-> <<>>]]).value,
     EligibilitySuccessResponse(
         [result_products |-> SimpleProducts(MakeCatalog(FirstPattern, 2)),
          filter_summary  |-> EmptyFilterSummary,
          user_conditions |-> [min_interest_rate |-> 3,
                               categories |-> <<"online", "anyone">>,
                               special_conditions |-> <<"bank_app">>]]).value,
     EligibilityErrorResponse(<<"no product data to analyse">>)}

ThreadBehaviours ==
    {[extract |-> "chunks", pattern |-> "ok", generate |-> 1,
      answers |-> [i \in 1..1 |-> "y"]],
     [extract |-> "raise", pattern |-> "ok", generate |-> -1,
      answers |-> [i \in 1..0 |-> "y"]]}

\* the steps of the schedule that are calls of op
StepsOf(ops) == {k \in 1..Len(schedule) : schedule[k].op \in ops}

\* thread t takes a step: the method or statement op with argument arg, which
\* leaves ctx as the context values of t and gives result
ThreadStep(t, op, arg, ctx, result) ==
    /\ Len(schedule) < MaxThreadSteps
    /\ schedule' = Append(schedule, [thread |-> t, op |-> op, arg |-> [v |-> arg],
                                     ctx |-> ctx, result |-> result])
    /\ UNCHANGED <<pipeVars, filterVars, inputVars>>

\* execute is entered: start_time is taken and the input is validated; an
\* input that fails validation ends the call with the error response
ThreadExecute(t) ==
    \E input \in ThreadInputs :
        LET valid == QuestionAgent_validate(input)
        IN  /\ thread_pc[t] = "idle"
            /\ Cardinality(StepsOf({"execute"})) < MaxThreadRuns
            /\ ThreadStep(t, "execute", input, thread_ctx[t],
                          IF valid.ok THEN None
                          ELSE QuestionAgent_format_error_response(valid.msg))
            /\ thread_arg' = [thread_arg EXCEPT ![t] =
                                 IF valid.ok
                                 THEN [eligibility_response |-> input,
                                       start_time |-> Len(schedule)]
                                 ELSE None]
            /\ thread_pc' = [thread_pc EXCEPT ![t] =
                                IF valid.ok THEN "set_eligible_products"
                                ELSE "idle"]
            /\ UNCHANGED thread_ctx

\* question_agent.py line 114
ThreadSetEligibleProducts(t) ==
    LET value == thread_arg[t].eligibility_response.result_products
        ctx == set_eligible_products(thread_ctx[t], value)
    IN  /\ thread_pc[t] = "set_eligible_products"
        /\ ThreadStep(t, "set_eligible_products", value, ctx, None)
        /\ thread_ctx' = ContextVar_set(thread_ctx, t, ctx)
        /\ thread_pc' = [thread_pc EXCEPT ![t] = "set_user_conditions"]
        /\ UNCHANGED thread_arg

\* question_agent.py line 116
ThreadSetUserConditions(t) ==
    LET value == thread_arg[t].eligibility_response.user_conditions
        ctx == set_user_conditions(thread_ctx[t], value)
    IN  /\ thread_pc[t] = "set_user_conditions"
        /\ ThreadStep(t, "set_user_conditions", value, ctx, None)
        /\ thread_ctx' = ContextVar_set(thread_ctx, t, ctx)
        /\ thread_pc' = [thread_pc EXCEPT ![t] = "set_session_id"]
        /\ UNCHANGED thread_arg

\* question_agent.py line 118
ThreadSetSessionId(t) ==
    LET value == SessionId(thread_arg[t].start_time)
        ctx == set_session_id(thread_ctx[t], value)
    IN  /\ thread_pc[t] = "set_session_id"
        /\ ThreadStep(t, "set_session_id", value, ctx, None)
        /\ thread_ctx' = ContextVar_set(thread_ctx, t, ctx)
        /\ thread_pc' = [thread_pc EXCEPT ![t] = "tool_chain"]
        /\ UNCHANGED thread_arg

\* question_agent.py lines 120-134: the chain runs in the calling thread, its
\* formatter stage reads the context values of that thread, and execute
\* returns the result
ThreadToolChain(t) ==
    \E b \in ThreadBehaviours :
        /\ thread_pc[t] = "tool_chain"
        /\ ThreadStep(t, "tool_chain", thread_arg[t].eligibility_response,
                      thread_ctx[t],
                      tool_chain_invoke(thread_arg[t].eligibility_response, b,
                                        thread_ctx[t]))
        /\ thread_pc' = [thread_pc EXCEPT ![t] = "idle"]
        /\ thread_arg' = [thread_arg EXCEPT ![t] = None]
        /\ UNCHANGED thread_ctx

ApiOps ==
    {"api_set_eligible_products", "api_set_user_conditions",
     "api_set_session_id", "api_clear_context"}

\* a thread outside execute calls method op of the context; ctx is what the
\* method leaves
ApiCall(t, op, arg, ctx) ==
    /\ thread_pc[t] = "idle"
    /\ Cardinality(StepsOf(ApiOps)) < MaxApiCalls
    /\ ThreadStep(t, op, arg, ctx, None)
    /\ thread_ctx' = ContextVar_set(thread_ctx, t, ctx)
    /\ UNCHANGED <<thread_pc, thread_arg>>

ApiSetEligibleProducts(t) ==
    \E value \in CraftedProducts \ {<<>>} :
        ApiCall(t, "api_set_eligible_products", value,
                set_eligible_products(thread_ctx[t], value))

ApiSetUserConditions(t) ==
    \E value \in PipeConditions :
        ApiCall(t, "api_set_user_conditions", value,
                set_user_conditions(thread_ctx[t], value))

ApiSetSessionId(t) ==
    ApiCall(t, "api_set_session_id", "session_0",
            set_session_id(thread_ctx[t], "session_0"))

ApiClearContext(t) ==
    ApiCall(t, "api_clear_context", None, clear_context(thread_ctx[t]))

InitThreads ==
    /\ ThreadsIdle
    /\ InputIdle
    /\ pc = "idle"
    /\ mode = "none"
    /\ step = 0
    /\ flow = None
    /\ invocations = <<>>
    /\ tool_calls = <<>>
    /\ outcome = NoOutcome
    /\ agent_ctx = [i \in Instances |-> NewContext]
    /\ instance = 1
    /\ ctx_writes = [i \in Instances |-> 0]
    /\ runs = 0
    /\ products = <<>>
    /\ conditions = DefaultConditions
    /\ results = <<>>
    /\ stages = NoStages

NextThreads ==
    \/ \E t \in Threads : ThreadExecute(t)
    \/ \E t \in Threads : ThreadSetEligibleProducts(t)
    \/ \E t \in Threads : ThreadSetUserConditions(t)
    \/ \E t \in Threads : ThreadSetSessionId(t)
    \/ \E t \in Threads : ThreadToolChain(t)
    \/ \E t \in Threads : ApiSetEligibleProducts(t)
    \/ \E t \in Threads : ApiSetUserConditions(t)
    \/ \E t \in Threads : ApiSetSessionId(t)
    \/ \E t \in Threads : ApiClearContext(t)

SpecThreads == InitThreads /\ [][NextThreads]_vars

-----------------------------------------------------------------------------
(* UserInputTool.invoke in console mode (test_mode), one statement of its
   question loop at a time.  The input channel is open (a read gives a line
   or is interrupted) or closed (every read raises EOFError). *)

MaxReads == 3         \* reads counted for one question; more are not counted

\* what a caller may hand to UserInputTool.invoke
UiInputs ==
    {question_generator_invoke(
         [analysis_success |-> TRUE, rag_queries |-> <<"query">>], g) :
         g \in -1..MaxQuestions}

\* the question loop has a question left to ask
Asking == ui_pc = "asking" /\ ui_index <= Len(ui_input.questions)

\* invoke is called: lines 183-203
UiInvoke ==
    \E input_data \in UiInputs :
        /\ ui_pc \in {"idle", "returned"}
        /\ ui_input' = input_data
        /\ ui_responses' = <<>>
        /\ ui_reads' = 0
        /\ IF UserInputTool_validate_input(input_data)
           THEN /\ ui_pc' = "asking"
                /\ ui_index' = 1
                /\ ui_result' = None
           ELSE /\ ui_pc' = "returned"
                /\ ui_index' = 0
                /\ ui_result' = [user_responses |-> <<>>,
                                 response_summary |-> <<>>,
                                 total_questions |-> 0,
                                 answered_questions |-> 0,
                                 collection_success |-> FALSE]
        /\ UNCHANGED <<channel, pipeVars, filterVars, threadVars>>

\* the read of line 95 gives a line that is, or is not, one of the accepted
\* answers.  An accepted answer ends _get_console_input, the response is
\* appended (lines 221-227) and the loop goes to the next question; any other
\* line goes back to the read (lines 101-103)
UiReadLine ==
    \E line \in {"y", "yes", "n", "no", "other"} :
        /\ Asking
        /\ channel = "open"
        /\ IF line = "other"
           THEN /\ ui_reads' = (IF ui_reads < MaxReads THEN ui_reads + 1
                                ELSE ui_reads)
                /\ UNCHANGED <<ui_index, ui_responses>>
           ELSE /\ ui_reads' = 0
                /\ ui_index' = ui_index + 1
                /\ ui_responses' =
                       Append(ui_responses,
                              create_user_response(ui_input.questions[ui_index],
                                                   line,
                                                   line \in {"y", "yes"}))
        /\ UNCHANGED <<ui_pc, ui_input, channel, ui_result, pipeVars,
                       filterVars, threadVars>>

\* the read is interrupted: KeyboardInterrupt, answered ("interrupted",
\* False) by lines 105-107
UiReadInterrupted ==
    /\ Asking
    /\ channel = "open"
    /\ ui_reads' = 0
    /\ ui_index' = ui_index + 1
    /\ ui_responses' =
           Append(ui_responses,
                  create_user_response(ui_input.questions[ui_index],
                                       "interrupted", FALSE))
    /\ UNCHANGED <<ui_pc, ui_input, channel, ui_result, pipeVars, filterVars,
                   threadVars>>

\* the read raises (EOFError on a closed channel): the except clause of
\* lines 108-109 takes the exception and prints it
UiReadRaises ==
    /\ Asking
    /\ channel = "closed"
    /\ ui_pc' = "handling"
    /\ ui_reads' = (IF ui_reads < MaxReads THEN ui_reads + 1 ELSE ui_reads)
    /\ UNCHANGED <<ui_input, ui_index, ui_responses, channel, ui_result,
                   pipeVars, filterVars, threadVars>>

\* the continue of line 110: back to the read of the same question
UiReadRetry ==
    /\ ui_pc = "handling"
    /\ ui_pc' = "asking"
    /\ UNCHANGED <<ui_input, ui_index, ui_responses, ui_reads, channel,
                   ui_result, pipeVars, filterVars, threadVars>>

\* the step of a question raises before its first read (lines 88-91): the
\* except clause of lines 231-234 skips the question
UiQuestionRaises ==
    /\ Asking
    /\ ui_reads = 0
    /\ ui_index' = ui_index + 1
    /\ UNCHANGED <<ui_pc, ui_input, ui_responses, ui_reads, channel,
                   ui_result, pipeVars, filterVars, threadVars>>

\* after the loop: lines 236-263, and lines 265-278 when one of them raises
UiReturn ==
    /\ ui_pc = "asking"
    /\ ui_index > Len(ui_input.questions)
    /\ ui_pc' = "returned"
    /\ ui_result' =
           LET summary == create_response_summary(<<ui_responses>>)
           IN  IF summary.ok
               THEN [user_responses     |-> ui_responses,
                     response_summary   |-> summary.value,
                     total_questions    |-> ui_input.total_questions,
                     answered_questions |-> Len(ui_responses),
                     collection_success |-> Len(ui_responses) > 0]
               ELSE [user_responses     |-> ui_responses,
                     response_summary   |-> <<>>,
                     total_questions    |-> ui_input.total_questions,
                     answered_questions |-> Len(ui_responses),
                     collection_success |-> FALSE]
    /\ UNCHANGED <<ui_input, ui_index, ui_responses, ui_reads, channel,
                   pipeVars, filterVars, threadVars>>

InitInput ==
    /\ ui_pc = "idle"
    /\ ui_input = None
    /\ ui_index = 0
    /\ ui_responses = <<>>
    /\ ui_reads = 0
    /\ channel \in {"open", "closed"}
    /\ ui_result = None
    /\ ThreadsIdle
    /\ pc = "idle"
    /\ mode = "none"
    /\ step = 0
    /\ flow = None
    /\ invocations = <<>>
    /\ tool_calls = <<>>
    /\ outcome = NoOutcome
    /\ agent_ctx = [i \in Instances |-> NewContext]
    /\ instance = 1
    /\ ctx_writes = [i \in Instances |-> 0]
    /\ runs = 0
    /\ products = <<>>
    /\ conditions = DefaultConditions
    /\ results = <<>>
    /\ stages = NoStages

NextInput ==
    \/ UiInvoke
    \/ UiReadLine
    \/ UiReadInterrupted
    \/ UiReadRaises
    \/ UiReadRetry
    \/ UiQuestionRaises
    \/ UiReturn

\* the thread that called invoke goes on running: a statement that can be
\* run is run
SpecInput == InitInput /\ [][NextInput]_vars /\ WF_vars(NextInput)

-----------------------------------------------------------------------------
(* Properties of the filter engine, checked under SpecFilter *)

Ran == Len(results) >= 1

IsDescending(list) ==
    \A i \in 1..Len(list) : \A j \in i..Len(list) :
        list[i].prime_interest_rate >= list[j].prime_interest_rate

\* fewer than 15 products survived stage 3 and products were added
BackfillOccurred ==
    /\ Ran
    /\ Len(stages.special) < 15
    /\ Len(stages.rebalanced) > Len(stages.special)

\* C1: the matched list of every run has between 0 and 30 products, and at
\* least min(15, |catalog|) of them whenever the catalog has 15 or more
C1_MatchedSizeBounds ==
    \A k \in 1..Len(results) :
        LET n == Len(results[k].matched_products)
            floor == IF Len(products) < 15 THEN Len(products) ELSE 15
        IN  /\ 0 <= n /\ n <= 30
            /\ Len(products) >= 15 => (floor <= n /\ n <= 30)

\* more than 30 products survived stage 3 and the run returned 30 of them
C1_Witness ==
    /\ Ran
    /\ Len(products) > 30
    /\ Len(stages.special) > 30
    /\ Len(results[1].matched_products) = 30

\* product p meets the rate condition and has every required tag
MeetsAll(p, c) ==
    /\ (IF p.interest_rate >= p.prime_interest_rate
        THEN p.interest_rate ELSE p.prime_interest_rate) >= c.min_interest_rate
    /\ \A i \in 1..Len(c.categories) :
           \E j \in 1..Len(p.categories) : p.categories[j] = c.categories[i]
    /\ \A i \in 1..Len(c.special_conditions) :
           /\ c.special_conditions[i] \in DOMAIN p.special_conditions
           /\ p.special_conditions[c.special_conditions[i]] = TRUE

\* the number of required tags product p lacks
MissingTags(p, c) ==
    Cardinality({i \in 1..Len(c.categories) :
                    \A j \in 1..Len(p.categories) :
                        p.categories[j] # c.categories[i]})
    + Cardinality({i \in 1..Len(c.special_conditions) :
                      \/ c.special_conditions[i] \notin DOMAIN p.special_conditions
                      \/ p.special_conditions[c.special_conditions[i]] # TRUE})

\* C5: every product that survives stages 1-3 (every matched product that is
\* not backfill) meets the rate condition and has all required category and
\* special-condition tags; a product lacking exactly one required tag is
\* not a survivor
C5_SurvivorsMeetAll ==
    Ran =>
        /\ \A i \in 1..Len(stages.special) :
               MeetsAll(stages.special[i], conditions)
        /\ \A i \in 1..Len(stages.rebalanced) :
               (Len(stages.special) >= 15 \/ i <= Len(stages.special))
                   => MeetsAll(stages.rebalanced[i], conditions)
        /\ \A i \in 1..Len(products) :
               MissingTags(products[i], conditions) = 1
                   => products[i].product_code \notin CodesOf(stages.special)

\* both kinds of tag are required, some product survives and the catalog
\* has a product that meets the rate but lacks exactly one required tag
C5_Witness ==
    /\ Ran
    /\ conditions.categories # <<>>
    /\ conditions.special_conditions # <<>>
    /\ stages.special # <<>>
    /\ \E i \in 1..Len(products) :
           /\ MissingTags(products[i], conditions) = 1
           /\ products[i].product_code \in CodesOf(stages.rate)

\* C6: match_rate is 0 exactly when matched + excluded is 0, and is
\* 100 * matched / (matched + excluded) otherwise
C6_MatchRate ==
    \A k \in 1..Len(results) :
        LET r == results[k]
            total == Len(r.matched_products) + Len(r.excluded_products)
        IN  /\ (r.match_rate.num = 0) <=> (total = 0)
            /\ total # 0 =>
                   r.match_rate.num * total
                       = 100 * Len(r.matched_products) * r.match_rate.den

\* a run on a non-empty catalog that excluded some product
C6_Witness ==
    /\ Ran
    /\ products # <<>>
    /\ results[1].excluded_products # <<>>
    /\ results[1].matched_products # <<>>

C8_NeverReclassified ==
    \A k \in 1..Len(results) :
        /\ CodesOf(results[k].matched_products)
               \cap CodesOf(results[k].excluded_products) = {}
        /\ CodesOf(results[k].matched_products)
               \cap DOMAIN results[k].exclusion_reasons = {}

\* C9 as stated: each of the four stages outputs no more products than it
\* was given
C9_EveryStageNarrows ==
    Ran =>
        /\ Len(stages.rate) <= Len(products)
        /\ Len(stages.category) <= Len(stages.rate)
        /\ Len(stages.special) <= Len(stages.category)
        /\ Len(stages.rebalanced) <= Len(stages.special)

\* C9 amended: the rate, category and special-condition stages output no
\* more products than they were given; the rebalancing stage outputs no more
\* than it was given when 15 or more survive, and at most 15 otherwise
C9_StagesNarrowExceptBackfill ==
    Ran =>
        /\ Len(stages.rate) <= Len(products)
        /\ Len(stages.category) <= Len(stages.rate)
        /\ Len(stages.special) <= Len(stages.category)
        /\ Len(stages.special) >= 15
               => Len(stages.rebalanced) <= Len(stages.special)
        /\ Len(stages.special) < 15 => Len(stages.rebalanced) <= 15

\* every filtering stage removed a product and the rebalancing stage added
\* some
C9_Witness ==
    /\ BackfillOccurred
    /\ Len(stages.rate) < Len(products)
    /\ Len(stages.special) < Len(stages.rate)

\* C10 as stated: after backfill the whole matched list is in descending
\* promotional-rate order
C10_UnionDescending ==
    BackfillOccurred => IsDescending(stages.rebalanced)

\* C10 amended: after backfill the matched list is the survivors in
\* descending promotional-rate order followed by the backfilled products in
\* descending promotional-rate order
C10_SegmentsDescending ==
    BackfillOccurred =>
        LET s == Len(stages.special)
            m == stages.rebalanced
        IN  /\ CodesOf(SubSeq(m, 1, s)) = CodesOf(stages.special)
            /\ IsDescending(SubSeq(m, 1, s))
            /\ IsDescending(SubSeq(m, s + 1, Len(m)))
            /\ CodesOf(SubSeq(m, s + 1, Len(m))) \cap CodesOf(stages.special) = {}

\* backfill added at least two products of different rates, one of them
\* with a higher promotional rate than a survivor
C10_Witness ==
    /\ BackfillOccurred
    /\ ~IsDescending(stages.rebalanced)
    /\ Len(stages.special) >= 2
    /\ LET s == Len(stages.special)
           m == stages.rebalanced
       IN  /\ Len(m) >= s + 2
           /\ m[s + 1].prime_interest_rate > m[Len(m)].prime_interest_rate

\* list is in descending promotional-rate order and products of equal rate
\* are in catalog order (the codes of a catalog number its products in order)
IsStableDescending(list) ==
    \A i \in 1..Len(list) : \A j \in (i + 1)..Len(list) :
        \/ list[i].prime_interest_rate > list[j].prime_interest_rate
        \/ /\ list[i].prime_interest_rate = list[j].prime_interest_rate
           /\ list[i].product_code < list[j].product_code

\* C11: when more than 30 products survive stage 3, the matched list is 30
\* of the survivors, in descending promotional-rate order with equal rates in
\* catalog order, and every survivor that was cut has a rate no higher than
\* every kept one (and comes later in the catalog than a kept one of the same
\* rate)
C11_TopThirtyStable ==
    (Ran /\ Len(stages.special) > 30) =>
        LET m == stages.rebalanced
            cut == SelectSeq(stages.special,
                             LAMBDA p : p.product_code \notin CodesOf(m))
        IN  /\ Len(m) = 30
            /\ Cardinality(CodesOf(m)) = 30
            /\ \A i \in 1..Len(m) :
                   \E k \in 1..Len(stages.special) : stages.special[k] = m[i]
            /\ IsStableDescending(m)
            /\ \A c \in 1..Len(cut) : \A i \in 1..Len(m) :
                   \/ cut[c].prime_interest_rate < m[i].prime_interest_rate
                   \/ /\ cut[c].prime_interest_rate = m[i].prime_interest_rate
                      /\ cut[c].product_code > m[i].product_code

\* more than 30 products of different rates survived, not in rate order, and
\* a product that was cut has the same rate as one that was kept
C11_Witness ==
    /\ Ran
    /\ Len(stages.special) > 30
    /\ ~IsDescending(stages.special)
    /\ \E k \in 1..Len(stages.special) :
           /\ stages.special[k].product_code \notin CodesOf(stages.rebalanced)
           /\ \E i \in 1..Len(stages.rebalanced) :
                  stages.rebalanced[i].prime_interest_rate
                      = stages.special[k].prime_interest_rate

\* between 15 and 30 products survived stage 3
SurvivorsInRange ==
    /\ Ran
    /\ Len(stages.special) >= 15
    /\ Len(stages.special) <= 30

\* C12 as stated: with 15 to 30 survivors the rebalancing stage returns the
\* stage-3 list unchanged, the same products in the same order
C12_ReturnedUnchanged ==
    SurvivorsInRange => stages.rebalanced = stages.special

\* C12 amended: with 15 to 30 survivors the rebalancing stage returns the
\* same products, none added and none removed, sorted in descending
\* promotional-rate order with equal rates in catalog order
C12_SameProductsSorted ==
    SurvivorsInRange =>
        /\ Len(stages.rebalanced) = Len(stages.special)
        /\ CodesOf(stages.rebalanced) = CodesOf(stages.special)
        /\ \A i \in 1..Len(stages.rebalanced) :
               \E k \in 1..Len(stages.special) :
                   stages.special[k] = stages.rebalanced[i]
        /\ IsStableDescending(stages.rebalanced)

\* 15 to 30 products survived in an order that is not the rate order
C12_Witness ==
    /\ SurvivorsInRange
    /\ ~IsDescending(stages.special)
    /\ stages.rebalanced # stages.special

\* C13: every matched product is a product of the catalog and no code occurs
\* twice in the matched list; a catalog of fewer than 15 products is matched
\* whole, every product once; an empty catalog gives an empty result with
\* match rate 0
C13_NeverFabricates ==
    \A k \in 1..Len(results) :
        LET m == results[k].matched_products
        IN  /\ \A i \in 1..Len(m) :
                   \E j \in 1..Len(products) : products[j] = m[i]
            /\ Cardinality(CodesOf(m)) = Len(m)
            /\ Len(products) < 15 =>
                   /\ Len(m) = Len(products)
                   /\ CodesOf(m) = CodesOf(products)
            /\ products = <<>> =>
                   /\ m = <<>>
                   /\ results[k].excluded_products = <<>>
                   /\ DOMAIN results[k].exclusion_reasons = {}
                   /\ results[k].match_count = 0
                   /\ results[k].match_rate.num = 0

\* a catalog of fewer than 15 products, some of them failing a condition,
\* was matched whole by the backfill
C13_Witness ==
    /\ BackfillOccurred
    /\ Len(products) < 15
    /\ Len(products) >= 2
    /\ stages.special # <<>>
    /\ Len(results[1].matched_products) = Len(products)

\* product p fails the rate condition of c
BelowRate(p, c) ==
    /\ p.interest_rate < c.min_interest_rate
    /\ p.prime_interest_rate < c.min_interest_rate

\* C14: after a run every catalog product is in the matched list or has an
\* exclusion reason (at least one of the two; that both never hold together
\* is C8); the keys of exclusion_reasons are the codes of excluded_products,
\* which lists no product twice; each key has one reason, which is the rate
\* reason for every product that failed the rate stage and the mismatch
\* reason for the others
C14_ReasonsCoverExcluded ==
    \A k \in 1..Len(results) :
        LET r == results[k]
        IN  /\ \A i \in 1..Len(products) :
                   \/ products[i].product_code \in CodesOf(r.matched_products)
                   \/ products[i].product_code \in DOMAIN r.exclusion_reasons
            /\ DOMAIN r.exclusion_reasons = CodesOf(r.excluded_products)
            /\ Cardinality(CodesOf(r.excluded_products))
                   = Len(r.excluded_products)
            /\ \A i \in 1..Len(products) :
                   products[i].product_code \in DOMAIN r.exclusion_reasons =>
                       r.exclusion_reasons[products[i].product_code]
                           = IF BelowRate(products[i], conditions)
                             THEN RATE_REASON ELSE MISMATCH_REASON
            /\ \A i \in 1..Len(products) :
                   BelowRate(products[i], conditions) =>
                       products[i].product_code \in DOMAIN r.exclusion_reasons

\* a run that excluded one product for its rate and another for a missing
\* tag, neither of them matched
C14_Witness ==
    /\ Ran
    /\ \E i, j \in 1..Len(products) :
           /\ products[i].product_code \notin CodesOf(results[1].matched_products)
           /\ products[j].product_code \notin CodesOf(results[1].matched_products)
           /\ products[i].product_code \in DOMAIN results[1].exclusion_reasons
           /\ products[j].product_code \in DOMAIN results[1].exclusion_reasons
           /\ results[1].exclusion_reasons[products[i].product_code] = RATE_REASON
           /\ results[1].exclusion_reasons[products[j].product_code]
                  = MISMATCH_REASON

\* the catalog products that did not survive stage 3, in catalog order
NonSurvivors ==
    LET survivor_codes == CodesOf(stages.special)
    IN  SelectSeq(products, LAMBDA p : p.product_code \notin survivor_codes)

\* C25: when s < 15 products survive stage 3, the matched list is the s
\* survivors followed by min(15 - s, number of non-survivors) backfilled
\* products; these are non-survivors in descending promotional-rate order
\* with equal rates in catalog order, and every non-survivor left out ranks
\* after every backfilled one (a lower rate, or the same rate and a later
\* place in the catalog)
C25_BackfillSelection ==
    (Ran /\ Len(stages.special) < 15) =>
        LET s == Len(stages.special)
            m == stages.rebalanced
            fill == SubSeq(m, s + 1, Len(m))
            shortfall == 15 - s
            others == NonSurvivors
            matched_codes == CodesOf(m)
            left_out == SelectSeq(others,
                                  LAMBDA p : p.product_code \notin matched_codes)
        IN  /\ Len(m) = s + (IF shortfall < Len(others)
                             THEN shortfall ELSE Len(others))
            /\ Cardinality(matched_codes) = Len(m)
            /\ \A i \in 1..s :
                   \E k \in 1..s : stages.special[k] = m[i]
            /\ \A i \in 1..Len(fill) :
                   \E k \in 1..Len(others) : others[k] = fill[i]
            /\ IsStableDescending(fill)
            /\ \A o \in 1..Len(left_out) : \A i \in 1..Len(fill) :
                   \/ left_out[o].prime_interest_rate
                          < fill[i].prime_interest_rate
                   \/ /\ left_out[o].prime_interest_rate
                             = fill[i].prime_interest_rate
                      /\ left_out[o].product_code > fill[i].product_code

\* some but fewer than 15 products survived; the backfill took a product
\* that failed the rate stage and one that met the rate but lacks a tag, and
\* left out a non-survivor that has the rate of a backfilled one
C25_Witness ==
    /\ BackfillOccurred
    /\ stages.special # <<>>
    /\ LET s == Len(stages.special)
           m == stages.rebalanced
       IN  /\ \E i \in (s + 1)..Len(m) : BelowRate(m[i], conditions)
           /\ \E i \in (s + 1)..Len(m) :
                  /\ ~BelowRate(m[i], conditions)
                  /\ MissingTags(m[i], conditions) >= 1
           /\ \E k \in 1..Len(NonSurvivors) :
                  /\ NonSurvivors[k].product_code \notin CodesOf(m)
                  /\ \E i \in (s + 1)..Len(m) :
                         m[i].prime_interest_rate
                             = NonSurvivors[k].prime_interest_rate

\* C28: matched and excluded partition the catalog: the two lists of a
\* result have together as many products as the catalog, so total_analyzed
\* is the number of products examined
C28_PartitionsCatalog ==
    \A k \in 1..Len(results) :
        /\ Len(results[k].matched_products) + Len(results[k].excluded_products)
               = Len(products)
        /\ results[k].total_analyzed = Len(products)
        /\ results[k].match_count + Len(results[k].excluded_products)
               = Len(products)

-----------------------------------------------------------------------------
(* Properties of the pipeline, checked under SpecPipe *)

InPipelineRun == mode = "pipeline"

PipelineReturned == mode = "pipeline" /\ pc = "returned"

\* some agent invoked during the current call returned its ErrorResponse
SomeAgentFailed ==
    \E i \in 1..Len(invocations) : ~invocations[i].response.success

InputFailsValidation(agent, input) ==
    CASE agent = "EligibilityAgent" ->
             \/ "conditions" \notin DOMAIN input
             \/ input.conditions = None
      [] agent = "QuestionAgent" ->
             \/ ~input.success
             \/ input.result_products = <<>>
      [] agent = "StrategyAgent" ->
             \/ ~input.success
             \/ input.eligible_products = <<>>
             \/ input.user_responses = <<>>

ErrorResponseOf(agent) ==
    CASE agent = "EligibilityAgent" -> "EligibilityErrorResponse"
      [] agent = "QuestionAgent" -> "QuestionErrorResponse"
      [] agent = "StrategyAgent" -> "StrategyErrorResponse"

\* C15: an agent whose input fails validation returns its ErrorResponse,
\* invokes no tool stage and no collaborator, and leaves every
\* QuestionAgent context as it was
C15_InvalidInputInvokesNothing ==
    [][(pc = "invoking" /\ InputFailsValidation(CurrentAgent, flow)) =>
           /\ tool_calls' = tool_calls
           /\ agent_ctx' = agent_ctx
           /\ flow'.type = ErrorResponseOf(CurrentAgent)
           /\ ~flow'.success]_vars

\* a QuestionAgent whose context holds the products of an earlier call was
\* handed a response without products and returned its ErrorResponse
C15_Witness ==
    /\ mode = "direct"
    /\ pc = "returned"
    /\ runs = 2
    /\ Len(invocations) = 1
    /\ invocations[1].agent = "QuestionAgent"
    /\ invocations[1].response
           = QuestionAgent_format_error_response(<<"no filtered products">>)
    /\ tool_calls = <<>>
    /\ agent_ctx[instance].eligible_products # <<>>

\* the response of the agent that made tool call k of the current call
ResponseOfCaller(k) ==
    LET i == CHOOSE i \in 1..Len(invocations) :
                 invocations[i].agent = tool_calls[k].agent
    IN  invocations[i].response

\* tool call k ended with an exception raised by its collaborator
Faulted(k) == tool_calls[k].fault # NoneStr

C17_SuccessMapping ==
    \A k \in 1..Len(tool_calls) :
        tool_calls[k].tool = "condition_matcher" =>
            LET filter_result == tool_calls[k].result
                response == ResponseOfCaller(k)
            IN  /\ response.type = "EligibilitySuccessResponse"
                /\ response.success
                /\ response.result_products
                       = SimpleProducts(filter_result.matched_products)
                /\ response.filter_summary
                       = [total_analyzed |-> filter_result.total_analyzed,
                          match_count    |-> filter_result.match_count,
                          excluded_count |->
                              Len(filter_result.excluded_products),
                          match_rate     |-> filter_result.match_rate]
                /\ response.user_conditions = filter_result.filter_conditions

\* C18: every StrategySuccessResponse that StrategyAgent.execute returns,
\* and every one a call gives back to its caller, has exactly 3 scenarios;
\* a chain result with any other number of scenarios gives a
\* StrategyErrorResponse
C18_ExactlyThreeScenarios ==
    /\ \A i \in 1..Len(invocations) :
           invocations[i].response.type = "StrategySuccessResponse" =>
               Len(invocations[i].response.scenarios) = 3
    /\ (outcome.kind = "returned"
            /\ outcome.value.type = "StrategySuccessResponse") =>
           Len(outcome.value.scenarios) = 3
    /\ \A k \in 1..Len(tool_calls) :
           (tool_calls[k].tool = "strategy_scenario"
                /\ Len(tool_calls[k].result.scenarios) # 3) =>
               ResponseOfCaller(k).type = "StrategyErrorResponse"

\* a StrategyAgent call whose chain gave three scenarios returned a
\* StrategySuccessResponse
C18_Witness ==
    /\ pc = "returned"
    /\ outcome.kind = "returned"
    /\ outcome.value.type = "StrategySuccessResponse"
    /\ \E k \in 1..Len(tool_calls) :
           /\ tool_calls[k].tool = "strategy_scenario"
           /\ Len(tool_calls[k].result.scenarios) = 3

\* C20: in every call of QuestionAgent.execute that invokes its chain, what
\* a read of the context gives to the stages is what this call has set, not
\* what an earlier call through the same instance left there; and no call
\* changes the context of another instance
C20_ContextIsolated ==
    [][/\ (pc = "invoking" /\ CurrentAgent = "QuestionAgent") =>
              /\ \A i \in Instances \ {instance} : agent_ctx'[i] = agent_ctx[i]
              /\ tool_calls' # tool_calls =>
                     /\ get_eligible_products(agent_ctx'[instance])
                            = flow.result_products
                     /\ get_user_conditions(agent_ctx'[instance])
                            = flow.user_conditions
                     /\ get_session_id(agent_ctx'[instance]) = SessionId(runs)
       /\ ~(pc = "invoking" /\ CurrentAgent = "QuestionAgent") =>
              agent_ctx' = agent_ctx]_vars

\* the third call wrote the context of an instance that an earlier call had
\* written, while the other instance keeps the different conditions of the
\* call that wrote it
C20_Witness ==
    /\ pc = "returned"
    /\ runs = 3
    /\ ctx_writes[instance] = 2
    /\ get_session_id(agent_ctx[instance]) = SessionId(3)
    /\ \E i \in Instances \ {instance} :
           /\ ctx_writes[i] = 1
           /\ get_user_conditions(agent_ctx[i])
                  # get_user_conditions(agent_ctx[instance])

\* a QuestionAgent.execute invocation is about to begin
QuestionAgentBegins == pc = "invoking" /\ CurrentAgent = "QuestionAgent"

\* the current call went through QuestionAgent.execute and is over
QuestionAgentEnded ==
    /\ pc = "returned"
    /\ \E i \in 1..Len(invocations) : invocations[i].agent = "QuestionAgent"

\* C21: the context of a QuestionAgent is cleared before it is used again:
\* when an execute invocation begins, no field of the instance's context
\* holds a value of an earlier call, and once a call is over (also one that
\* failed validation) every field holds its default or what this call set
C21_ClearedBeforeReuse ==
    /\ QuestionAgentBegins => agent_ctx[instance] = NewContext
    /\ QuestionAgentEnded =>
           \/ agent_ctx[instance] = NewContext
           \/ get_session_id(agent_ctx[instance]) = SessionId(runs)

\* the responses the agents and the pipeline have produced during the
\* current call
ProducedResponses ==
    {invocations[i].response : i \in 1..Len(invocations)}
    \cup (IF outcome.kind = "returned" THEN {outcome.value} ELSE {})
    \cup {tool_calls[k].result :
             k \in {j \in 1..Len(tool_calls) :
                       tool_calls[j].tool = "response_formatter"}}

ErrorTypes ==
    {"EligibilityErrorResponse", "QuestionErrorResponse",
     "StrategyErrorResponse"}

SuccessTypes ==
    {"EligibilitySuccessResponse", "QuestionSuccessResponse",
     "StrategySuccessResponse"}

\* every payload field of the error response r has its empty default
EmptyPayload(r) ==
    CASE r.type = "EligibilityErrorResponse" ->
             /\ r.result_products = <<>>
             /\ r.filter_summary = EmptyFilterSummary
             /\ r.user_conditions = None
      [] r.type = "QuestionErrorResponse" ->
             /\ r.eligible_products = <<>>
             /\ r.user_responses = <<>>
             /\ r.response_summary = <<>>
             /\ r.user_conditions = None
      [] r.type = "StrategyErrorResponse" ->
             /\ r.scenarios = <<>>
             /\ r.user_responses = <<>>
             /\ r.response_summary = <<>>
             /\ r.interest_calculations = <<>>
             /\ r.user_conditions = None

\* C24: every ErrorResponse an agent, a formatter stage or the pipeline has
\* produced carries an error message, success false, no next agent and empty
\* payload fields; every SuccessResponse has success true and no error; so
\* the success flag of a response agrees with its variant
C24_TypedResponses ==
    \A r \in ProducedResponses :
        /\ r.type \in ErrorTypes \cup SuccessTypes
        /\ r.type \in ErrorTypes =>
               /\ ~r.success
               /\ r.next_agent = NoneStr
               /\ r.error # NoneStr
               /\ EmptyPayload(r)
        /\ r.type \in SuccessTypes =>
               /\ r.success
               /\ r.error = NoneStr
        /\ r.success <=> r.type \in SuccessTypes

\* a pipeline run is over in which each of the three agents produced its
\* ErrorResponse, the first one after the filter had matched products
C24_Witness ==
    /\ PipelineReturned
    /\ Len(invocations) = 3
    /\ {invocations[i].response.type : i \in 1..3} = ErrorTypes
    /\ \E k \in 1..Len(tool_calls) :
           /\ tool_calls[k].tool = "condition_matcher"
           /\ tool_calls[k].result.matched_products # <<>>
    /\ outcome.value.type = "StrategyErrorResponse"

\* the names of the tool stages agent has invoked during the current call,
\* in the order invoked
ToolsInvokedBy(agent) ==
    LET calls == SelectSeq(tool_calls, LAMBDA c : c.agent = agent)
    IN  [k \in 1..Len(calls) |-> calls[k].tool]

SuccessResponseOf(agent) ==
    CASE agent = "EligibilityAgent" -> "EligibilitySuccessResponse"
      [] agent = "QuestionAgent" -> "QuestionSuccessResponse"
      [] agent = "StrategyAgent" -> "StrategySuccessResponse"

\* C26: an execute call ends in exactly one of Succeeded (the agent's
\* SuccessResponse) and Failed (its ErrorResponse); a call that fails
\* validation invokes no tool stage and is Failed; a call that runs invokes
\* each tool stage of its chain once, in chain order, and none again; and
\* during one Pipeline.run each agent's execute is called at most once, in
\* pipeline order
C26_NoRetryInChainOrder ==
    /\ \A i \in 1..Len(invocations) :
           LET agent == invocations[i].agent
               response == invocations[i].response
               names == ToolsInvokedBy(agent)
           IN  /\ response.type
                      \in {SuccessResponseOf(agent), ErrorResponseOf(agent)}
               /\ response.success <=> response.type = SuccessResponseOf(agent)
               /\ names = <<>> => ~response.success
               /\ agent = "QuestionAgent" => names \in {<<>>, QuestionChain}
               /\ agent = "StrategyAgent" => names \in {<<>>, StrategyChain}
               /\ agent = "EligibilityAgent" =>
                      names \in {<<>>, <<"get_all_documents">>,
                                 <<"get_all_documents", "condition_matcher">>}
    /\ \A k \in 1..Len(tool_calls) :
           \E i \in 1..Len(invocations) :
               invocations[i].agent = tool_calls[k].agent
    /\ \A k \in 1..Len(tool_calls) : \A j \in (k + 1)..Len(tool_calls) :
           \A i1, i2 \in 1..Len(invocations) :
               (/\ invocations[i1].agent = tool_calls[k].agent
                /\ invocations[i2].agent = tool_calls[j].agent) => i1 <= i2
    /\ mode = "pipeline" =>
           /\ Len(invocations) <= 3
           /\ \A i \in 1..Len(invocations) :
                  invocations[i].agent
                      = <<"EligibilityAgent", "QuestionAgent",
                          "StrategyAgent">>[i]
    /\ mode = "direct" => Len(invocations) <= 1

\* a QuestionAgent call is over in which the question generator failed: the
\* five stages were each invoked once, in chain order, and the call Failed
C26_Witness ==
    /\ mode = "direct"
    /\ pc = "returned"
    /\ ToolsInvokedBy("QuestionAgent") = QuestionChain
    /\ Len(tool_calls) = 5
    /\ tool_calls[3].fault = GenerateFault
    /\ invocations[1].response.type = "QuestionErrorResponse"

\* the tool stages QuestionAgent has invoked during the current call
QuestionStages == SelectSeq(tool_calls, LAMBDA c : c.agent = "QuestionAgent")

\* the result a stage returned carries a failure flag
FailureFlagged(call) ==
    CASE call.tool = "condition_extractor" -> ~call.result.success
      [] call.tool = "pattern_analyzer" -> ~call.result.analysis_success
      [] call.tool = "question_generator" -> ~call.result.generation_success
      [] call.tool = "user_input" -> ~call.result.collection_success
      [] OTHER -> FALSE

\* stage k >= 2 of the call gets past the validation of its input, behind
\* which its LLM call, its retrieval, its prompt to the user or its read of
\* the context stands; its input is what stage k - 1 returned
PassesValidation(chain, k) ==
    CASE chain[k].tool = "pattern_analyzer" ->
             PatternAnalyzerTool_validate_input(chain[k - 1].result)
      [] chain[k].tool = "question_generator" ->
             QuestionGeneratorTool_validate_input(chain[k - 1].result)
      [] chain[k].tool = "user_input" ->
             UserInputTool_validate_input(chain[k - 1].result)
      [] chain[k].tool = "response_formatter" ->
             ResponseFormatterTool_validate_input(chain[k - 1].result)

\* C29: once a stage of the QuestionAgent chain has returned a failure
\* flagged result, every later stage of the chain is still invoked, none of
\* them gets past its input validation (so none calls the LLM, the retrieval
\* or the user), and the call returns a QuestionErrorResponse, never a
\* QuestionSuccessResponse
C29_SoftFailurePropagates ==
    \A i \in 1..Len(QuestionStages) :
        FailureFlagged(QuestionStages[i]) =>
            /\ [k \in 1..Len(QuestionStages) |-> QuestionStages[k].tool]
                   = QuestionChain
            /\ \A j \in (i + 1)..Len(QuestionStages) :
                   /\ ~PassesValidation(QuestionStages, j)
                   /\ QuestionStages[j].fault = NoneStr
            /\ \A n \in 1..Len(invocations) :
                   invocations[n].agent = "QuestionAgent" =>
                       /\ invocations[n].response.type = "QuestionErrorResponse"
                       /\ ~invocations[n].response.success

\* a QuestionAgent call in which the LLM call of the pattern analyzer raised:
\* the stage returned a failure flagged result that still carries RAG
\* queries, the three later stages were invoked, and the call returned an
\* error
C29_Witness ==
    /\ mode = "direct"
    /\ pc = "returned"
    /\ Len(QuestionStages) = 5
    /\ QuestionStages[1].result.success
    /\ QuestionStages[2].fault = PatternFault
    /\ ~QuestionStages[2].result.analysis_success
    /\ QuestionStages[2].result.rag_queries # <<>>
    /\ ~QuestionStages[3].result.generation_success
    /\ ~QuestionStages[4].result.collection_success
    /\ \E n \in 1..Len(invocations) :
           /\ invocations[n].agent = "QuestionAgent"
           /\ invocations[n].response.type = "QuestionErrorResponse"

\* C30: when UserInputTool.invoke is given a valid list of n >= 1 questions,
\* its result has answered_questions = the number of collected responses
\* <= total_questions = n, collection_success is true exactly when a
\* response was collected, and response_summary then has an entry for every
\* answered question
C30_InputResultConsistent ==
    Len(QuestionStages) = Len(QuestionChain) =>
        LET input_data == QuestionStages[3].result
            result == QuestionStages[4].result
        IN  UserInputTool_validate_input(input_data) =>
                /\ result.answered_questions = Len(result.user_responses)
                /\ result.answered_questions <= result.total_questions
                /\ result.total_questions = Len(input_data.questions)
                /\ result.collection_success <=> Len(result.user_responses) > 0
                /\ result.collection_success =>
                       \A i \in 1..Len(result.user_responses) :
                           result.user_responses[i].question
                               \in DOMAIN result.response_summary

-----------------------------------------------------------------------------
(* Properties of the context under threads, checked under SpecThreads *)

\* the steps of thread t before step k of the schedule
EarlierStepsOf(t, k) == {j \in 1..(k - 1) : schedule[j].thread = t}

\* the context values of thread t when it took step k
ContextBefore(t, k) ==
    IF EarlierStepsOf(t, k) = {} THEN NewContext
    ELSE schedule[CHOOSE j \in EarlierStepsOf(t, k) :
                      \A i \in EarlierStepsOf(t, k) : i <= j].ctx

\* C22: after clear_context, whatever was set before (also nothing),
\* get_eligible_products gives the empty list, get_user_conditions None and
\* get_session_id the empty string; a second clear_context leaves what the
\* first one left
C22_ClearResetsEveryField ==
    /\ \A k \in StepsOf({"api_clear_context"}) :
           /\ get_eligible_products(schedule[k].ctx) = <<>>
           /\ get_user_conditions(schedule[k].ctx) = None
           /\ get_session_id(schedule[k].ctx) = ""
           /\ ContextBefore(schedule[k].thread, k) = NewContext
                  => schedule[k].ctx = NewContext
           /\ (\A j \in (k + 1)..Len(schedule) :
                   schedule[j].thread # schedule[k].thread)
                  => thread_ctx[schedule[k].thread] = schedule[k].ctx
    /\ \A t \in Threads :
           clear_context(clear_context(thread_ctx[t]))
               = clear_context(thread_ctx[t])

\* a thread whose context held a value in every field called clear_context
\* twice in a row
C22_Witness ==
    \E k1, k2 \in StepsOf({"api_clear_context"}) :
        /\ k1 < k2
        /\ schedule[k1].thread = schedule[k2].thread
        /\ EarlierStepsOf(schedule[k1].thread, k2)
               \ EarlierStepsOf(schedule[k1].thread, k1) = {k1}
        /\ LET before == ContextBefore(schedule[k1].thread, k1)
           IN  /\ before.eligible_products # <<>>
               /\ before.user_conditions # None
               /\ before.session_id # ""
        /\ schedule[k2].ctx = schedule[k1].ctx

\* C23: when two threads run execute on the same QuestionAgent at the same
\* time, what a read of the context gives to the chain of a run (its
\* formatter stage) is the products and the conditions this run has set,
\* in every interleaving
C23_ThreadsReadOwnValues ==
    \A k \in StepsOf({"tool_chain"}) :
        /\ get_eligible_products(schedule[k].ctx)
               = schedule[k].arg.v.result_products
        /\ get_user_conditions(schedule[k].ctx)
               = schedule[k].arg.v.user_conditions
        /\ schedule[k].ctx = thread_ctx[schedule[k].thread]
               \/ \E j \in (k + 1)..Len(schedule) :
                      schedule[j].thread = schedule[k].thread

\* a run set its products, then the run of the other thread was entered
\* and set different ones, and then the first run set the rest and its chain
\* ran
C23_Witness ==
    \E i, j1, j2, k \in 1..Len(schedule) :
        /\ i < j1 /\ j1 < j2 /\ j2 < k
        /\ schedule[i].op = "set_eligible_products"
        /\ schedule[k].op = "tool_chain"
        /\ schedule[k].thread = schedule[i].thread
        /\ EarlierStepsOf(schedule[i].thread, k)
               \ EarlierStepsOf(schedule[i].thread, i + 1)
               \subseteq StepsOf({"set_user_conditions", "set_session_id"})
        /\ schedule[j1].op = "execute"
        /\ schedule[j1].thread # schedule[i].thread
        /\ schedule[j2].op = "set_eligible_products"
        /\ schedule[j2].thread = schedule[j1].thread
        /\ schedule[j2].arg # schedule[i].arg
        /\ get_eligible_products(schedule[j2].ctx)
               # get_eligible_products(schedule[k].ctx)

-----------------------------------------------------------------------------
(* Properties of the user-input stage, checked under SpecInput *)

\* C27: the user-input stage ends: once invoke is asking its questions it
\* returns, also when the input channel raises on every read
C27_InputStageReturns == (ui_pc = "asking") ~> (ui_pc = "returned")

====
